---- MODULE Spec2Model ----
(***************************************************************************)
(* Model of the ng-search engine: the State Container                      *)
(* (SearchStateService) and the Query Coordinator                          *)
(* (SearchCoordinatorService) with its debounced, cancel-superseded search *)
(* pipeline and its auto-search effect.                                    *)
(*                                                                         *)
(* One action is one handler run to completion on the single JavaScript    *)
(* thread: a public method call, a timer firing, an adapter notification,  *)
(* or one run of an Angular effect.                                        *)
(***************************************************************************)
EXTENDS Integers, Sequences, FiniteSets, TLC

VARIABLES
    state,                    \* SearchStateService: its signals, plus the calls the
                              \* running handler made to telemetry / logger / adapter
    adapter,                  \* SearchCoordinatorService._adapter (<<>> = undefined)
    config,                   \* SearchCoordinatorService._config
    searchSubscription,       \* TRUE while the subscription on searchTrigger$ is open
    pending,                  \* inner observables of the search pipeline still running
    currentSearchMeta,        \* SearchCoordinatorService.currentSearchMeta (<<>> = null)
    lastAutoSearchSignature,  \* SearchCoordinatorService.lastAutoSearchSignature
    effectDirty,              \* the auto-search effect is scheduled to run
    quiet,                    \* history: ms elapsed since the last search()/cancel()
    seen,                     \* history: the searchQuery the previous run of the
                              \* effect read (<<>> before the first run)
    configTouched,            \* history: setConfig was called since that run
    suggestSubscription,      \* TRUE while the subscription on suggestTrigger$ is open
    suggestPending,           \* inner observables of the suggestion pipeline
    currentSuggestMeta,       \* SearchCoordinatorService.currentSuggestMeta
    configDirty,              \* the effect of setupConfigSync is scheduled to run
    emitted,                  \* history: the events emitted so far, in order
    limitStable,              \* history: since the first event was emitted the
                              \* history limit was not changed and the log was
                              \* not cleared
    requestedLimit,           \* history: the eventHistoryLimit of the last
                              \* setConfig() that named one (<<>> = none, or
                              \* setEventHistoryLimit was called directly since)
    facets,                   \* FacetManagerService._facets: the facet states in
                              \* the order of the map
    changeEvents,             \* FacetManagerService._changeEvents (<<>> = null)
    destroyed                 \* the DestroyRef of the coordinator ran its onDestroy
                              \* callbacks: both trigger subjects are completed

suggestVars == <<suggestSubscription, suggestPending, currentSuggestMeta>>

logVars == <<configDirty, emitted, limitStable, requestedLimit>>

facetVars == <<facets, changeEvents>>

vars == <<state, adapter, config, searchSubscription, pending, currentSearchMeta,
          lastAutoSearchSignature, effectDirty, quiet, seen, configTouched,
          suggestVars, logVars, facetVars, destroyed>>

-----------------------------------------------------------------------------
(* Bounds of the model *)

MaxPending == 2      \* adapter calls / timers outstanding at the same time
MaxEmitted == 5      \* events emitted in one run of the event-history model
MaxLogged == 6       \* events kept in the log of the search pipeline

(* Program constants *)

DEFAULT_EVENT_HISTORY_LIMIT == 100
DefaultDebounceTime == 300
DefaultMinQueryLength == 1
DefaultPageSize == 10
DefaultVisibleCount == 10

-----------------------------------------------------------------------------
(* Values *)

None == <<>>
Some(x) == <<x>>

\* query texts, as sequences of characters: "", " a", "ab"
Texts == {<<>>, <<" ", "a">>, <<"a", "b">>}

RECURSIVE TrimStart(_)
TrimStart(t) == IF t # <<>> /\ Head(t) = " " THEN TrimStart(Tail(t)) ELSE t

RECURSIVE TrimEnd(_)
TrimEnd(t) ==
    IF t # <<>> /\ t[Len(t)] = " " THEN TrimEnd(SubSeq(t, 1, Len(t) - 1)) ELSE t

\* String.prototype.trim
Trim(t) == TrimEnd(TrimStart(t))

Errors == {"E1"}
Fields == {"x"}
FilterValues == {1}
Filters == [field : Fields, type : {"term"}, value : FilterValues, operator : {"OR"}]
Pages == {1, 2}
MinQueryLengths == {DefaultMinQueryLength, DefaultMinQueryLength + 1}
TickMs == DefaultDebounceTime \div 2

Min(a, b) == IF a < b THEN a ELSE b

-----------------------------------------------------------------------------
(* State Container: SearchStateService *)

\* The container as constructed.  `calls' is not a signal: it lists, in order,
\* the calls of search() and the calls to the telemetry service, the logger
\* and the adapter made by the handler that ran last; every handler starts
\* with it empty.
InitialState ==
    [ query |-> <<>>,
      results |-> <<>>,
      loading |-> FALSE,
      loadingSuggestions |-> FALSE,
      error |-> None,
      total |-> 0,
      filters |-> <<>>,
      sort |-> <<>>,
      pagination |-> [page |-> 1, pageSize |-> DefaultPageSize, total |-> 0],
      aggregations |-> <<>>,
      suggestions |-> <<>>,
      events |-> <<>>,
      eventHistoryLimit |-> Some(DEFAULT_EVENT_HISTORY_LIMIT),
      clients |-> <<>>,
      calls |-> <<>> ]

Enter(s) == [s EXCEPT !.calls = <<>>]

\* a slice that keeps the oldest n
SliceFirst(seq, n) ==
    IF Len(seq) > n THEN SubSeq(seq, 1, n) ELSE seq

\* Array.prototype.slice(-n) for n > 0
SliceLast(seq, n) ==
    IF Len(seq) > n THEN SubSeq(seq, Len(seq) - n + 1, Len(seq)) ELSE seq

\* SearchTelemetryService: the loop over the clients of recordEvent,
\* recordTiming and recordError, from client i on.  `clients' lists the
\* telemetry clients injected under NG_SEARCH_TELEMETRY_CLIENTS, each by what
\* its methods do: "returns", "throws", or "eventsOnly" for a client that
\* defines trackEvent alone.  recordUncaught is the loop without its try/catch:
\* the exception of a client ends it.
RECURSIVE record(_, _, _, _)
recordUncaught(s, method, notification, i) ==
    IF i > Len(s.clients) THEN s
    ELSE IF method # "trackEvent" /\ s.clients[i] = "eventsOnly"
    THEN record(s, method, notification, i + 1)
    ELSE LET called == [s EXCEPT !.calls =
                           Append(@, [call |-> method, client |-> i,
                                      notification |-> notification])]
         IN  IF s.clients[i] = "throws"
             THEN [called EXCEPT !.calls = Append(@, [call |-> "throw"])]
             ELSE record(called, method, notification, i + 1)

record(s, method, notification, i) ==
    IF i > Len(s.clients) THEN s
    ELSE IF method # "trackEvent" /\ s.clients[i] = "eventsOnly"
    THEN record(s, method, notification, i + 1)
    ELSE LET called == [s EXCEPT !.calls =
                           Append(@, [call |-> method, client |-> i,
                                      notification |-> notification])]
         IN  IF s.clients[i] = "throws"
             THEN record([called EXCEPT !.calls =
                             Append(@, [call |-> "logger.error",
                                        message |-> <<"[SearchTelemetry]",
                                                      method, "failed">>])],
                         method, notification, i + 1)
             ELSE record(called, method, notification, i + 1)

\* private emitEvent(type, payload): append to the bounded history and hand the
\* event to telemetry.recordEvent.  An event is its type with its payload fields.
emitEvent(s, event) ==
    LET limit == s.eventHistoryLimit
        next == Append(s.events, event)
        kept == IF limit = None THEN next
                ELSE IF limit[1] <= 0 THEN <<>>
                ELSE IF Len(next) > limit[1] THEN SliceLast(next, limit[1])
                ELSE next
    IN  record([s EXCEPT !.events = kept,
                         !.calls = Append(@, [call |-> "recordEvent",
                                              event |-> event])],
               "trackEvent", event, 1)

\* searchQuery with the offset of the page after the current one
searchQueryNextOffset(s) ==
    [ query |-> s.query,
      size |-> s.pagination.pageSize,
      from |-> s.pagination.page * s.pagination.pageSize,
      sort |-> s.sort,
      filters |-> s.filters ]

\* readonly searchQuery = computed(...)
searchQuery(s) ==
    [ query |-> s.query,
      size |-> s.pagination.pageSize,
      from |-> (s.pagination.page - 1) * s.pagination.pageSize,
      sort |-> s.sort,
      filters |-> s.filters ]

\* setQuery without the page reset
setQueryKeepsPage(s, query) ==
    emitEvent([s EXCEPT !.query = query],
              [type |-> "query_changed", query |-> query])

setQuery(s, query) ==
    emitEvent([s EXCEPT !.query = query, !.pagination.page = 1],
              [type |-> "query_changed", query |-> query])

\* setResults that leaves pagination.total alone
setResultsTotalOnly(s, results, total) ==
    [s EXCEPT !.results = results, !.total = total]

setResults(s, results, total) ==
    [s EXCEPT !.results = results, !.total = total, !.pagination.total = total]

\* setLoading that leaves the error alone
setLoadingKeepsError(s, loading) == [s EXCEPT !.loading = loading]

setLoading(s, loading) ==
    IF loading THEN [s EXCEPT !.loading = TRUE, !.error = None]
    ELSE [s EXCEPT !.loading = FALSE]

setError(s, error) ==
    IF error # None THEN [s EXCEPT !.error = error, !.loading = FALSE]
    ELSE [s EXCEPT !.error = None]

\* an insertion that never replaces
MapSetAppend(filters, filter) == Append(filters, filter)

\* Map.set on a copy of the filter map: replaces the entry of an existing key in
\* place, appends a new key at the end (a Map iterates in insertion order)
MapSet(filters, filter) ==
    IF \E i \in 1..Len(filters) : filters[i].field = filter.field
    THEN [i \in 1..Len(filters) |->
             IF filters[i].field = filter.field THEN filter ELSE filters[i]]
    ELSE Append(filters, filter)

\* Map.delete on a copy of the filter map
MapDelete(filters, field) == SelectSeq(filters, LAMBDA f : f.field # field)

addFilter(s, filter) ==
    emitEvent([s EXCEPT !.filters = MapSet(@, filter), !.pagination.page = 1],
              [type |-> "filter_added", filter |-> filter])

removeFilter(s, field) ==
    emitEvent([s EXCEPT !.filters = MapDelete(@, field), !.pagination.page = 1],
              [type |-> "filter_removed", field |-> field])

setPagination(s, page) ==
    emitEvent([s EXCEPT !.pagination.page = page],
              [type |-> "page_changed", page |-> page])

\* setPagination(page, pageSize)
setPaginationSized(s, page, pageSize) ==
    emitEvent([s EXCEPT !.pagination.page = page,
                        !.pagination.pageSize = pageSize],
              [type |-> "page_changed", page |-> page, pageSize |-> pageSize])

clearFilters(s) ==
    emitEvent([s EXCEPT !.filters = <<>>, !.pagination.page = 1],
              [type |-> "filter_cleared"])

\* updateFilter(field, value): the value of an existing entry is replaced in
\* place; no event
updateFilter(s, field, value) ==
    [s EXCEPT !.filters = [i \in 1..Len(@) |->
                              IF @[i].field = field
                              THEN [@[i] EXCEPT !.value = value] ELSE @[i]],
              !.pagination.page = 1]

setSort(s, sort) == [s EXCEPT !.sort = sort, !.pagination.page = 1]

\* computed views of the container
hasQuery(s) == Len(Trim(s.query)) > 0

hasResults(s) == Len(s.results) > 0

isEmpty(s) == ~s.loading /\ ~hasResults(s) /\ hasQuery(s)

isInitial(s) == ~s.loading /\ ~hasQuery(s) /\ ~hasResults(s)

\* Math.ceil(total / pageSize)
totalPages(s) ==
    (s.pagination.total + s.pagination.pageSize - 1) \div s.pagination.pageSize

\* a guard that lets the page after the last one through
hasNextPageInclusive(s) == s.pagination.page <= totalPages(s)

hasNextPage(s) == s.pagination.page < totalPages(s)

hasPrevPage(s) == s.pagination.page > 1

nextPage(s) ==
    IF hasNextPage(s) THEN setPagination(s, s.pagination.page + 1) ELSE s

prevPage(s) ==
    IF hasPrevPage(s) THEN setPagination(s, s.pagination.page - 1) ELSE s

\* reset(): loadingSuggestions, the events and their limit are not reset
reset(s) ==
    [s EXCEPT !.query = <<>>, !.results = <<>>, !.loading = FALSE,
              !.error = None, !.total = 0, !.filters = <<>>, !.sort = <<>>,
              !.pagination = [page |-> 1, pageSize |-> DefaultPageSize,
                              total |-> 0],
              !.aggregations = <<>>, !.suggestions = <<>>]

\* getSnapshot(): the filter map becomes the list of its [key, value] entries;
\* loadingSuggestions, the events and their limit are not part of it
getSnapshot(s) ==
    [ query |-> s.query,
      results |-> s.results,
      loading |-> s.loading,
      error |-> s.error,
      total |-> s.total,
      filters |-> [i \in 1..Len(s.filters) |-> <<s.filters[i].field, s.filters[i]>>],
      sort |-> s.sort,
      pagination |-> s.pagination,
      aggregations |-> s.aggregations,
      suggestions |-> s.suggestions ]

\* new Map(entries): the entries are set one after the other, a repeated key
\* keeps the place of its first entry and the value of its last
RECURSIVE MapFromEntries(_)
MapFromEntries(entries) ==
    IF entries = <<>> THEN <<>>
    ELSE LET front == MapFromEntries(SubSeq(entries, 1, Len(entries) - 1))
             last == entries[Len(entries)]
         IN  IF \E i \in 1..Len(front) : front[i].field = last[1]
             THEN [i \in 1..Len(front) |->
                      IF front[i].field = last[1] THEN last[2] ELSE front[i]]
             ELSE Append(front, last[2])

\* restoreSnapshot that rebuilds the filter map in the reverse order
restoreSnapshotReversed(s, snapshot) ==
    [s EXCEPT !.query = snapshot.query, !.results = snapshot.results,
              !.loading = snapshot.loading, !.error = snapshot.error,
              !.total = snapshot.total,
              !.filters = MapFromEntries(
                  [i \in 1..Len(snapshot.filters) |->
                      snapshot.filters[Len(snapshot.filters) + 1 - i]]),
              !.sort = snapshot.sort, !.pagination = snapshot.pagination,
              !.aggregations = snapshot.aggregations,
              !.suggestions = snapshot.suggestions]

\* restoreSnapshot(snapshot): ten signals are set, no event is emitted
restoreSnapshot(s, snapshot) ==
    [s EXCEPT !.query = snapshot.query, !.results = snapshot.results,
              !.loading = snapshot.loading, !.error = snapshot.error,
              !.total = snapshot.total,
              !.filters = MapFromEntries(snapshot.filters),
              !.sort = snapshot.sort, !.pagination = snapshot.pagination,
              !.aggregations = snapshot.aggregations,
              !.suggestions = snapshot.suggestions]

setAggregations(s, aggregations) == [s EXCEPT !.aggregations = aggregations]

setSuggestions(s, suggestions) ==
    emitEvent([s EXCEPT !.suggestions = suggestions],
              [type |-> "suggestions_received", count |-> Len(suggestions)])

clearSuggestions(s) ==
    emitEvent([s EXCEPT !.suggestions = <<>>], [type |-> "suggestions_cleared"])

setLoadingSuggestions(s, loading) == [s EXCEPT !.loadingSuggestions = loading]

markSuggestionsRequested(s, query) ==
    emitEvent(s, [type |-> "suggestions_requested", query |-> query])

markSuggestionsFailed(s, error, query) ==
    emitEvent(s, [type |-> "suggestions_failed", message |-> error,
                  query |-> query])

markSearchStarted(s, query) ==
    emitEvent(s, [type |-> "search_started", query |-> query])

markSearchCompleted(s, query, total) ==
    emitEvent(s, [type |-> "search_completed", query |-> query, total |-> total])

markSearchFailed(s, error, query) ==
    emitEvent(s, [type |-> "search_failed", message |-> error, query |-> query])

\* private trimEventHistory(limit), for a limit that is not null
trimEventHistory(s, limit) ==
    IF limit <= 0 THEN [s EXCEPT !.events = <<>>]
    ELSE [s EXCEPT !.events = SliceLast(@, limit)]

\* setEventHistoryLimit(limit) for a number: Math.max(0, Math.floor(limit))
setEventHistoryLimit(s, limit) ==
    LET normalized == IF limit < 0 THEN 0 ELSE limit
    IN  trimEventHistory([s EXCEPT !.eventHistoryLimit = Some(normalized)],
                         normalized)

\* setEventHistoryLimit(null): keep every event
setEventHistoryLimitNull(s) == [s EXCEPT !.eventHistoryLimit = None]

\* setEventHistoryLimit(): back to the default
setEventHistoryLimitDefault(s) ==
    trimEventHistory([s EXCEPT !.eventHistoryLimit =
                                   Some(DEFAULT_EVENT_HISTORY_LIMIT)],
                     DEFAULT_EVENT_HISTORY_LIMIT)

clearEvents(s) == [s EXCEPT !.events = <<>>]

\* SearchTelemetryService.recordError / recordTiming, and the logger
recordError(s, error, source) ==
    record([s EXCEPT !.calls = Append(@, [call |-> "recordError", error |-> error,
                                          source |-> source])],
           "trackError", [error |-> error, source |-> source], 1)

recordTiming(s, name, query) ==
    record([s EXCEPT !.calls = Append(@, [call |-> "recordTiming", name |-> name,
                                          query |-> query])],
           "trackTiming", [name |-> name, query |-> query], 1)

loggerError(s, message) ==
    [s EXCEPT !.calls = Append(@, [call |-> "logger.error", message |-> message])]

-----------------------------------------------------------------------------
(* Query Coordinator: SearchCoordinatorService *)

\* new SearchConfigModel()
DefaultConfig ==
    [ debounceTime |-> DefaultDebounceTime,
      minQueryLength |-> DefaultMinQueryLength,
      autoSearch |-> TRUE ]

\* SearchConfigModel.merge(overrides), for an override of one field:
\* new SearchConfigModel({...this, ...overrides}), whose constructor copies the
\* fields the class declares and no other
merge(current, field, value) ==
    IF field \in DOMAIN current THEN [current EXCEPT ![field] = value]
    ELSE current

\* config.eventHistoryLimit as the config-sync effect reads it (<<>> = undefined)
eventHistoryLimit(cfg) ==
    IF "eventHistoryLimit" \in DOMAIN cfg THEN Some(cfg.eventHistoryLimit) ELSE None

\* An inner observable of the search pipeline: the debounce timer of one
\* search() call and then the adapter call it makes.  `live' is RxJS state: the
\* pipeline is still subscribed to it.  `superseded' and `cancelled' are
\* history: a later search() entered the pipeline, or cancel() was called,
\* after this one started.
Instance(query, due) ==
    [ query |-> query, phase |-> "debounce", due |-> due, waited |-> 0,
      live |-> TRUE, superseded |-> FALSE, cancelled |-> FALSE ]

\* An adapter call that was unsubscribed keeps running on the adapter's side
\* until the adapter settles it; the pipeline holds nothing of it any more
Orphan(x) ==
    [ phase |-> "inflight", live |-> FALSE,
      superseded |-> x.superseded, cancelled |-> x.cancelled ]

RemoveAt(seq, i) == SubSeq(seq, 1, i - 1) \o SubSeq(seq, i + 1, Len(seq))

HasLiveCall(p) == \E i \in 1..Len(p) : p[i].live /\ p[i].phase = "inflight"

\* Unsubscribing the inner observables: a pending timer is cleared; an adapter
\* call in progress loses its subscriber
Unsubscribed(p) ==
    LET kept == SelectSeq(p, LAMBDA x : ~(x.live /\ x.phase = "debounce"))
    IN  [i \in 1..Len(kept) |-> IF kept[i].live THEN Orphan(kept[i]) ELSE kept[i]]

\* The coordinator's pipeline fields that a handler updates together
World(s, p, meta, sub) ==
    [state |-> s, pending |-> p, meta |-> meta, sub |-> sub]

\* finalize(() => { setLoading(false); currentSearchMeta = null }) runs when
\* the inner adapter observable is unsubscribed
unsubscribeInner(w) ==
    IF HasLiveCall(w.pending)
    THEN World(setLoading(w.state, FALSE), Unsubscribed(w.pending), None, w.sub)
    ELSE World(w.state, Unsubscribed(w.pending), w.meta, w.sub)

\* outer switchMap of setupAutoSearch, on searchTrigger$.next(query): the
\* previous inner observable is unsubscribed, then the project function runs
\* the outer operator without the unsubscription of the previous inner
\* observable (mergeMap)
mergeMapNext(w, query, cfg) ==
    LET s1 == setLoading(markSearchStarted(w.state, query), TRUE)
    IN  World(s1, Append(w.pending, Instance(query, cfg.debounceTime)),
              Some(query), w.sub)

switchMapNext(w, query, cfg) ==
    LET w1 == unsubscribeInner(w)
        s1 == setLoading(markSearchStarted(w1.state, query), TRUE)
    IN  World(s1, Append(w1.pending, Instance(query, cfg.debounceTime)),
              Some(query), w1.sub)

\* Subject.next: delivered to the subscription while it is open
searchTriggerNext(w, query, cfg) ==
    IF w.sub THEN switchMapNext(w, query, cfg) ELSE w

\* the length check without trim()
TooShortUntrimmed(text, cfg) ==
    Len(text) > 0 /\ Len(text) < cfg.minQueryLength

TooShort(text, cfg) ==
    Len(Trim(text)) > 0 /\ Len(Trim(text)) < cfg.minQueryLength

\* the call itself, noted with the calls the handler makes
Called(w, name, query) ==
    [w EXCEPT !.state.calls = Append(@, [call |-> name, query |-> query])]

\* search(query?) without the adapter check
searchUnchecked(w, query, adp, cfg) ==
    LET w0 == Called(w, "search", query)
        sq == IF query = None THEN searchQuery(w0.state) ELSE query[1]
    IN  IF TooShort(sq.query, cfg) THEN w0 ELSE searchTriggerNext(w0, sq, cfg)

\* search(query?): `query' is None when the argument is omitted
search(w, query, adp, cfg) ==
    LET w0 == Called(w, "search", query)
    IN  IF adp = None
        THEN [w0 EXCEPT !.state =
                 loggerError(@, "[SearchCoordinator] Search adapter is not configured")]
        ELSE LET sq == IF query = None THEN searchQuery(w0.state) ELSE query[1]
             IN  IF TooShort(sq.query, cfg) THEN w0
                 ELSE searchTriggerNext(w0, sq, cfg)

\* cancel() that only clears the loading flag
cancelFlagOnly(w) ==
    World(setLoading(w.state, FALSE), w.pending, w.meta, w.sub)

\* cancel()
cancel(w) ==
    LET w1 == unsubscribeInner(w)
    IN  World(setLoading(w1.state, FALSE), w1.pending, w1.meta, FALSE)

\* handleSearchResponse(response)
handleSearchResponse(s, response) ==
    LET s1 == setResults(s, response.results, response.total)
        s2 == IF response.aggregations # None
              THEN setAggregations(s1, response.aggregations[1]) ELSE s1
    IN  IF Len(response.suggestions) > 0
        THEN setSuggestions(s2, response.suggestions) ELSE s2

\* subscribe((payload) => ...) for a response, then the inner observable
\* completes and finalize runs
onResponse(s, query, response) ==
    LET s1 == handleSearchResponse(s, response)
        s2 == markSearchCompleted(s1, query, response.total)
        s3 == recordTiming(s2, "search", query)
    IN  setLoading(s3, FALSE)

\* catchError((error) => ...), the null payload is ignored by the subscriber,
\* then the inner observable completes and finalize runs
onError(s, query, error) ==
    LET s1 == setError(s, Some(error))
        s2 == markSearchFailed(s1, error, query)
        s3 == recordError(s2, error, "search")
    IN  setLoading(s3, FALSE)

\* finalize of the suggestion pipeline on unsubscription of its inner
\* observable
unsubscribeInnerSuggest(w) ==
    IF HasLiveCall(w.pending)
    THEN World(setLoadingSuggestions(w.state, FALSE), Unsubscribed(w.pending),
               None, w.sub)
    ELSE World(w.state, Unsubscribed(w.pending), w.meta, w.sub)

\* suggestTrigger$.next(query) through an outer operator that keeps the
\* previous inner observable subscribed (mergeMap)
suggestMergeMapNext(w, query, cfg) ==
    IF ~w.sub THEN w
    ELSE LET s1 == setLoadingSuggestions(
                       markSuggestionsRequested(w.state, query), TRUE)
         IN  World(s1, Append(w.pending, Instance(query, cfg.debounceTime)),
                   Some(query), w.sub)

\* suggestTrigger$.next(query) through the outer switchMap of
\* setupAutoSuggest; nobody listens when the subscription is not open
suggestTriggerNext(w, query, cfg) ==
    IF ~w.sub THEN w
    ELSE LET w1 == unsubscribeInnerSuggest(w)
             s1 == setLoadingSuggestions(
                       markSuggestionsRequested(w1.state, query), TRUE)
         IN  World(s1, Append(w1.pending, Instance(query, cfg.debounceTime)),
                   Some(query), w1.sub)

\* the adapter implements suggest
CanSuggest(adp) == adp # None /\ adp[1].suggest

\* suggest(query) with the length check without trim()
suggestUntrimmed(w, query, adp, cfg) ==
    LET w0 == Called(w, "suggest", query)
    IN  IF ~CanSuggest(adp) THEN w0
        ELSE IF Len(query) < cfg.minQueryLength
        THEN [w0 EXCEPT !.state = clearSuggestions(@)]
        ELSE suggestTriggerNext(w0, query, cfg)

\* suggest(query) on the fields of the suggestion pipeline
suggest(w, query, adp, cfg) ==
    LET w0 == Called(w, "suggest", query)
    IN  IF ~CanSuggest(adp) THEN w0
        ELSE IF Len(Trim(query)) < cfg.minQueryLength
        THEN [w0 EXCEPT !.state = clearSuggestions(@)]
        ELSE suggestTriggerNext(w0, query, cfg)

\* setAdapter(adapter): the suggestion pipeline is unsubscribed and, when the
\* new adapter implements suggest, subscribed again by setupAutoSuggest
setAdapter(w, adp) ==
    LET w1 == unsubscribeInnerSuggest(w)
    IN  World(w1.state, w1.pending, w1.meta, adp.suggest)

\* subscribe((payload) => ...) of setupAutoSuggest for the suggestions of the
\* adapter, then the inner observable completes and finalize runs
onSuggestions(s, query, suggestions) ==
    LET s1 == setSuggestions(s, suggestions)
        s2 == IF Len(suggestions) > 0
              THEN recordTiming(s1, "suggestions", query) ELSE s1
    IN  setLoadingSuggestions(s2, FALSE)

\* catchError((error) => ...) of setupAutoSuggest, whose empty list goes to the
\* subscriber, then finalize
onSuggestError(s, query, error) ==
    LET s1 == loggerError(s, "[SearchCoordinator] Suggestion error:")
        s2 == markSuggestionsFailed(s1, error, query)
        s3 == recordError(s2, error, "suggestions")
    IN  onSuggestions(s3, query, <<>>)

\* serializeQuery(query): the JSON text of these five parts
serializeQuery(query) ==
    << query.query, query.from, query.size, query.sort,
       [i \in 1..Len(query.filters) |->
           [ field |-> query.filters[i].field,
             operator |-> query.filters[i].operator,
             type |-> query.filters[i].type,
             value |-> query.filters[i].value ]] >>

-----------------------------------------------------------------------------
(* Inputs *)

\* adapters: every adapter implements search, suggest is optional
Adapters == [suggest : BOOLEAN]

SearchOnlyAdapter == [suggest |-> FALSE]

\* queries passed explicitly to search(query)
ManualQueries ==
    [ query : Texts, size : {DefaultPageSize}, from : {0}, sort : {<<>>},
      filters : {<<>>} ]

\* what the adapter may answer to a query: no hit, or one hit with aggregation
\* data and a suggestion
Responses ==
    { [ results |-> <<>>, total |-> 0, aggregations |-> None, suggestions |-> <<>> ],
      [ results |-> <<[id |-> 1]>>, total |-> 1,
        aggregations |-> Some([field |-> "x"]),
        suggestions |-> <<[text |-> "s"]>> ] }

-----------------------------------------------------------------------------
(* History kept for the properties *)

QuietCap == DefaultDebounceTime

MarkAll(p, field) == [i \in 1..Len(p) |-> [p[i] EXCEPT ![field] = TRUE]]

\* a search() call with this argument gets past the adapter and length checks
Accepted(s, query, adp, cfg) ==
    /\ adp # None
    /\ ~TooShort((IF query = None THEN searchQuery(s) ELSE query[1]).query, cfg)

-----------------------------------------------------------------------------
(* Actions *)

Cur == World(Enter(state), pending, currentSearchMeta, searchSubscription)

Apply(w) ==
    /\ state' = w.state
    /\ pending' = w.pending
    /\ currentSearchMeta' = w.meta
    /\ searchSubscription' = w.sub

\* bound of the model: the adapter calls outstanding at the same time
Bounded == Len(pending') <= MaxPending

\* The engine as constructed, with the event history switched off by
\* setEventHistoryLimit(0): every event is still handed to telemetry.  Spec,
\* SpecAuto, SpecSuggest and SpecState start here and never run the config-sync
\* effect, which would set the history limit again; the event history and that
\* effect are the subject of SpecLog, which starts from InitLog.
Init ==
    /\ state = setEventHistoryLimit(InitialState, 0)
    /\ adapter = None
    /\ config = DefaultConfig
    /\ searchSubscription = TRUE
    /\ pending = <<>>
    /\ currentSearchMeta = None
    /\ lastAutoSearchSignature = None
    /\ effectDirty = TRUE
    /\ quiet = QuietCap
    /\ seen = None
    /\ configTouched = FALSE
    /\ suggestSubscription = FALSE
    /\ suggestPending = <<>>
    /\ currentSuggestMeta = None
    /\ configDirty = TRUE
    /\ emitted = <<>>
    /\ limitStable = TRUE
    /\ requestedLimit = None
    /\ facets = <<>>
    /\ changeEvents = None
    /\ destroyed = FALSE

\* the fields of the suggestion pipeline
CurSuggest ==
    World(Enter(state), suggestPending, currentSuggestMeta, suggestSubscription)

ApplySuggest(w) ==
    /\ state' = w.state
    /\ suggestPending' = w.pending
    /\ currentSuggestMeta' = w.meta
    /\ suggestSubscription' = w.sub

\* coordinator.setAdapter(adapter)
\* (a subscription on a completed suggestTrigger$ is closed at once)
SetAdapter(adp) ==
    /\ adapter' = Some(adp)
    /\ ApplySuggest([setAdapter(CurSuggest, adp) EXCEPT !.sub = @ /\ ~destroyed])
    /\ UNCHANGED <<config, searchSubscription, pending, currentSearchMeta,
                   lastAutoSearchSignature, effectDirty, quiet, seen, configTouched>>
    /\ UNCHANGED <<logVars, facetVars, destroyed>>

\* coordinator.setConfig({field: value}); both effects read _config
SetConfig(field, value) ==
    /\ config' = merge(config, field, value)
    /\ effectDirty' = TRUE
    /\ configTouched' = TRUE
    /\ state' = Enter(state)
    /\ configDirty' = TRUE
    /\ requestedLimit' =
           IF field = "eventHistoryLimit" THEN Some(value) ELSE requestedLimit
    /\ UNCHANGED <<adapter, searchSubscription, pending, currentSearchMeta,
                   lastAutoSearchSignature, quiet, seen>>
    /\ UNCHANGED <<suggestVars, emitted, limitStable, facetVars, destroyed>>

\* coordinator.search(query) called by the application
Search(query) ==
    /\ Apply(search([Cur EXCEPT !.pending =
                        IF Accepted(state, query, adapter, config)
                        THEN MarkAll(@, "superseded") ELSE @],
                    query, adapter, config))
    /\ quiet' = IF Accepted(state, query, adapter, config) THEN 0 ELSE quiet
    /\ Bounded
    /\ UNCHANGED <<adapter, config, lastAutoSearchSignature, effectDirty, seen, configTouched>>
    /\ UNCHANGED <<suggestVars, logVars, facetVars, destroyed>>

\* coordinator.cancel()
Cancel ==
    /\ Apply(cancel([Cur EXCEPT !.pending = MarkAll(@, "cancelled")]))
    /\ quiet' = 0
    /\ UNCHANGED <<adapter, config, lastAutoSearchSignature, effectDirty, seen, configTouched>>
    /\ UNCHANGED <<suggestVars, logVars, facetVars, destroyed>>

\* a timer of p has still to wait
Waiting(p) ==
    \E i \in 1..Len(p) : p[i].phase = "debounce" /\ p[i].waited < p[i].due

\* the timers of p after TickMs more
Advance(p) ==
    [i \in 1..Len(p) |->
        IF p[i].phase = "debounce"
        THEN [p[i] EXCEPT !.waited = Min(@ + TickMs, p[i].due)]
        ELSE p[i]]

\* time passes
Tick ==
    /\ quiet < QuietCap \/ Waiting(pending) \/ Waiting(suggestPending)
    /\ pending' = Advance(pending)
    /\ suggestPending' = Advance(suggestPending)
    /\ quiet' = Min(quiet + TickMs, QuietCap)
    /\ state' = Enter(state)
    /\ UNCHANGED <<adapter, config, searchSubscription, currentSearchMeta,
                   lastAutoSearchSignature, effectDirty, seen, configTouched>>
    /\ UNCHANGED <<suggestSubscription, currentSuggestMeta, logVars, facetVars, destroyed>>


\* the debounce timer of the current search fires and the inner switchMap calls
\* adapter.search(query), which returns its observable
AdapterCalled(i) ==
    /\ i \in 1..Len(pending)
    /\ pending[i].phase = "debounce" /\ pending[i].live
    /\ pending[i].waited >= pending[i].due
    /\ IF adapter = None
       THEN /\ pending' = RemoveAt(pending, i)
            /\ state' = Enter(state)
       ELSE /\ pending' = [pending EXCEPT ![i].phase = "inflight"]
            /\ state' = [Enter(state) EXCEPT !.calls =
                            Append(@, [call |-> "adapter.search",
                                       query |-> Some(pending[i].query)])]
    /\ UNCHANGED <<adapter, config, searchSubscription, currentSearchMeta,
                   lastAutoSearchSignature, effectDirty, quiet, seen, configTouched>>
    /\ UNCHANGED <<suggestVars, logVars, facetVars, destroyed>>

\* the debounce timer fires and adapter.search(query) throws instead of
\* returning an observable: the exception leaves the project function of the
\* inner switchMap as an error notification, which no catchError or finalize
\* sees (they belong to the observable that was never returned); the
\* subscriber has no error callback, so the subscription ends with an
\* unhandled error
AdapterThrows(i, error) ==
    /\ i \in 1..Len(pending)
    /\ pending[i].phase = "debounce" /\ pending[i].live
    /\ pending[i].waited >= pending[i].due
    /\ adapter # None
    /\ pending' = Unsubscribed(RemoveAt(pending, i))
    /\ searchSubscription' = FALSE
    /\ state' = [Enter(state) EXCEPT !.calls =
                    << [call |-> "adapter.search", query |-> Some(pending[i].query)],
                       [call |-> "reportUnhandledError", error |-> error] >>]
    /\ UNCHANGED <<adapter, config, currentSearchMeta, lastAutoSearchSignature,
                   effectDirty, quiet, seen, configTouched>>
    /\ UNCHANGED <<suggestVars, logVars, facetVars, destroyed>>

\* the adapter's observable emits its response and completes
SearchResponds(i, response) ==
    /\ i \in 1..Len(pending)
    /\ pending[i].phase = "inflight"
    /\ response \in Responses
    /\ pending' = RemoveAt(pending, i)
    /\ IF pending[i].live
       THEN /\ state' = onResponse(Enter(state), pending[i].query, response)
            /\ currentSearchMeta' = None
            \* searchQuery reads _pagination, which setResults replaces when
            \* the total differs
            /\ effectDirty' = (effectDirty \/ response.total # state.pagination.total)
       ELSE /\ state' = Enter(state)
            /\ UNCHANGED <<currentSearchMeta, effectDirty>>
    /\ Bounded
    /\ UNCHANGED <<adapter, config, searchSubscription, lastAutoSearchSignature,
                   quiet, seen, configTouched>>
    /\ UNCHANGED <<suggestVars, logVars, facetVars, destroyed>>

\* the adapter's observable errors
SearchErrors(i, error) ==
    /\ i \in 1..Len(pending)
    /\ pending[i].phase = "inflight"
    /\ error \in Errors
    /\ pending' = RemoveAt(pending, i)
    /\ IF pending[i].live
       THEN /\ state' = onError(Enter(state), pending[i].query, error)
            /\ currentSearchMeta' = None
       ELSE /\ state' = Enter(state)
            /\ UNCHANGED currentSearchMeta
    /\ Bounded
    /\ UNCHANGED <<adapter, config, searchSubscription, lastAutoSearchSignature,
                   effectDirty, quiet, seen, configTouched>>
    /\ UNCHANGED <<suggestVars, logVars, facetVars, destroyed>>

\* a call of a container mutator by the application; searchQuery reads the
\* signals these write
Mutate(s) ==
    /\ state' = s
    /\ effectDirty' = TRUE
    /\ UNCHANGED <<adapter, config, searchSubscription, pending, currentSearchMeta,
                   lastAutoSearchSignature, quiet, seen, configTouched>>
    /\ Bounded
    /\ UNCHANGED <<suggestVars, logVars, facetVars, destroyed>>

SetQuery(text) == Mutate(setQuery(Enter(state), text))

AddFilter(filter) == Mutate(addFilter(Enter(state), filter))

RemoveFilter(field) == Mutate(removeFilter(Enter(state), field))

\* the eligibility test without the filters
EligibleTextOnly(query, cfg) ==
    Len(Trim(query.query)) >= cfg.minQueryLength

\* the text is long enough, or a filter is active
Eligible(query, cfg) ==
    \/ Len(Trim(query.query)) >= cfg.minQueryLength
    \/ Len(query.filters) > 0

\* the effect of setupAutoSearch decides to call search(query)
Triggers(query, sig, cfg) ==
    /\ cfg.autoSearch
    /\ Eligible(query, cfg)
    /\ Some(serializeQuery(query)) # sig

\* the effect without the comparison of signatures
autoSearchEffectNoSignature(w, sig, adp, cfg) ==
    LET query == searchQuery(w.state)
    IN  IF ~cfg.autoSearch THEN [w |-> w, sig |-> None]
        ELSE IF ~Eligible(query, cfg) THEN [w |-> w, sig |-> None]
        ELSE [ w |-> search(w, Some(query), adp, cfg),
               sig |-> Some(serializeQuery(query)) ]

\* body of the effect of setupAutoSearch: the pipeline fields and
\* lastAutoSearchSignature after one run
autoSearchEffect(w, sig, adp, cfg) ==
    LET query == searchQuery(w.state)
    IN  IF ~cfg.autoSearch THEN [w |-> w, sig |-> None]
        ELSE IF ~Eligible(query, cfg) THEN [w |-> w, sig |-> None]
        ELSE IF Some(serializeQuery(query)) = sig THEN [w |-> w, sig |-> sig]
        ELSE [ w |-> search(w, Some(query), adp, cfg),
               sig |-> Some(serializeQuery(query)) ]

\* one scheduled run of the effect
AutoSearchEffect ==
    /\ effectDirty
    /\ ~destroyed
    /\ LET query == searchQuery(state)
           enters == /\ Triggers(query, lastAutoSearchSignature, config)
                     /\ Accepted(state, Some(query), adapter, config)
           r == autoSearchEffect(
                    [Cur EXCEPT !.pending =
                        IF enters THEN MarkAll(@, "superseded") ELSE @],
                    lastAutoSearchSignature, adapter, config)
       IN  /\ Apply(r.w)
           /\ lastAutoSearchSignature' = r.sig
           /\ quiet' = IF enters THEN 0 ELSE quiet
           /\ seen' = Some(query)
    /\ configTouched' = FALSE
    /\ effectDirty' = FALSE
    /\ Bounded
    /\ UNCHANGED <<adapter, config>>
    /\ UNCHANGED <<suggestVars, logVars, facetVars, destroyed>>

\* The search pipeline driven by the application: search(), cancel(), the
\* timers and the adapter
Next ==
    \/ SetAdapter(SearchOnlyAdapter)
    \/ \E m \in MinQueryLengths : SetConfig("minQueryLength", m)
    \/ \E b \in BOOLEAN : SetConfig("autoSearch", b)
    \/ \E t \in Texts : SetQuery(t)
    \/ \E q \in ManualQueries : Search(Some(q))
    \/ Search(None)
    \/ Cancel
    \/ Tick
    \/ \E i \in 1..Len(pending) : AdapterCalled(i)
    \/ \E i \in 1..Len(pending), e \in Errors : AdapterThrows(i, e)
    \/ \E i \in 1..Len(pending), r \in Responses : SearchResponds(i, r)
    \/ \E i \in 1..Len(pending), e \in Errors : SearchErrors(i, e)
    \/ AutoSearchEffect

Spec == Init /\ [][Next]_vars

\* The auto-search effect driven by changes of the container and of the
\* configuration
NextAuto ==
    \/ SetAdapter(SearchOnlyAdapter)
    \/ \E m \in MinQueryLengths : SetConfig("minQueryLength", m)
    \/ \E b \in BOOLEAN : SetConfig("autoSearch", b)
    \/ \E t \in Texts : SetQuery(t)
    \/ \E f \in Filters : AddFilter(f)
    \/ \E f \in Fields : RemoveFilter(f)
    \/ Tick
    \/ \E i \in 1..Len(pending) : AdapterCalled(i)
    \/ \E i \in 1..Len(pending), r \in Responses : SearchResponds(i, r)
    \/ AutoSearchEffect

SpecAuto == Init /\ [][NextAuto]_vars

-----------------------------------------------------------------------------
(* Actions of the suggestion pipeline *)

\* what the adapter may answer to suggest
SuggestionLists == {<<>>, <<[text |-> "s"]>>}

\* a suggest() call with this text gets past the adapter and length checks
SuggestAccepted(text, adp, cfg) ==
    CanSuggest(adp) /\ Len(Trim(text)) >= cfg.minQueryLength

BoundedSuggest == Len(suggestPending') <= MaxPending

\* coordinator.suggest(query) called by the application
Suggest(text) ==
    /\ ApplySuggest(suggest([CurSuggest EXCEPT !.pending =
                                IF SuggestAccepted(text, adapter, config)
                                THEN MarkAll(@, "superseded") ELSE @],
                            text, adapter, config))
    /\ BoundedSuggest
    /\ UNCHANGED <<adapter, config, searchSubscription, pending, currentSearchMeta,
                   lastAutoSearchSignature, effectDirty, quiet, seen, configTouched>>
    /\ UNCHANGED <<logVars, facetVars, destroyed>>

\* the debounce timer of the current suggestion request fires and the inner
\* switchMap calls adapter.suggest(query), which returns its observable
SuggestCalled(i) ==
    /\ i \in 1..Len(suggestPending)
    /\ suggestPending[i].phase = "debounce" /\ suggestPending[i].live
    /\ suggestPending[i].waited >= suggestPending[i].due
    /\ IF ~CanSuggest(adapter)
       THEN /\ suggestPending' = RemoveAt(suggestPending, i)
            /\ state' = setSuggestions(
                            setLoadingSuggestions(Enter(state), FALSE), <<>>)
            /\ currentSuggestMeta' = None
       ELSE /\ suggestPending' = [suggestPending EXCEPT ![i].phase = "inflight"]
            /\ state' = [Enter(state) EXCEPT !.calls =
                            Append(@, [call |-> "adapter.suggest",
                                       query |-> suggestPending[i].query])]
            /\ UNCHANGED currentSuggestMeta
    /\ UNCHANGED <<adapter, config, searchSubscription, pending, currentSearchMeta,
                   lastAutoSearchSignature, effectDirty, quiet, seen, configTouched>>
    /\ UNCHANGED <<suggestSubscription, logVars, facetVars, destroyed>>

\* the timer fires and adapter.suggest(query) throws instead of returning an
\* observable: as for adapter.search, no catchError or finalize sees the
\* exception and the subscription ends with an unhandled error
SuggestThrows(i, error) ==
    /\ i \in 1..Len(suggestPending)
    /\ suggestPending[i].phase = "debounce" /\ suggestPending[i].live
    /\ suggestPending[i].waited >= suggestPending[i].due
    /\ CanSuggest(adapter)
    /\ suggestPending' = Unsubscribed(RemoveAt(suggestPending, i))
    /\ suggestSubscription' = FALSE
    /\ state' = [Enter(state) EXCEPT !.calls =
                    << [call |-> "adapter.suggest",
                        query |-> suggestPending[i].query],
                       [call |-> "reportUnhandledError", error |-> error] >>]
    /\ UNCHANGED <<adapter, config, searchSubscription, pending, currentSearchMeta,
                   lastAutoSearchSignature, effectDirty, quiet, seen, configTouched>>
    /\ UNCHANGED <<currentSuggestMeta, logVars, facetVars, destroyed>>

\* the observable of adapter.suggest emits its suggestions and completes
SuggestResponds(i, suggestions) ==
    /\ i \in 1..Len(suggestPending)
    /\ suggestPending[i].phase = "inflight"
    /\ suggestions \in SuggestionLists
    /\ suggestPending' = RemoveAt(suggestPending, i)
    /\ IF suggestPending[i].live
       THEN /\ state' = onSuggestions(Enter(state), suggestPending[i].query,
                                      suggestions)
            /\ currentSuggestMeta' = None
       ELSE /\ state' = Enter(state)
            /\ UNCHANGED currentSuggestMeta
    /\ UNCHANGED <<adapter, config, searchSubscription, pending, currentSearchMeta,
                   lastAutoSearchSignature, effectDirty, quiet, seen, configTouched>>
    /\ UNCHANGED <<suggestSubscription, logVars, facetVars, destroyed>>

\* the observable of adapter.suggest errors
SuggestErrors(i, error) ==
    /\ i \in 1..Len(suggestPending)
    /\ suggestPending[i].phase = "inflight"
    /\ error \in Errors
    /\ suggestPending' = RemoveAt(suggestPending, i)
    /\ IF suggestPending[i].live
       THEN /\ state' = onSuggestError(Enter(state), suggestPending[i].query,
                                       error)
            /\ currentSuggestMeta' = None
       ELSE /\ state' = Enter(state)
            /\ UNCHANGED currentSuggestMeta
    /\ UNCHANGED <<adapter, config, searchSubscription, pending, currentSearchMeta,
                   lastAutoSearchSignature, effectDirty, quiet, seen, configTouched>>
    /\ UNCHANGED <<suggestSubscription, logVars, facetVars, destroyed>>

\* The suggestion pipeline next to the search pipeline: suggest(), search(),
\* cancel(), the timers and the adapter
NextSuggest ==
    \/ \E a \in Adapters : SetAdapter(a)
    \/ \E m \in MinQueryLengths : SetConfig("minQueryLength", m)
    \/ \E t \in Texts : Suggest(t)
    \/ Search(None)
    \/ Cancel
    \/ Tick
    \/ \E i \in 1..Len(suggestPending) : SuggestCalled(i)
    \/ \E i \in 1..Len(suggestPending), e \in Errors : SuggestThrows(i, e)
    \/ \E i \in 1..Len(suggestPending), l \in SuggestionLists :
          SuggestResponds(i, l)
    \/ \E i \in 1..Len(suggestPending), e \in Errors : SuggestErrors(i, e)
    \/ \E i \in 1..Len(pending) : AdapterCalled(i)
    \/ \E i \in 1..Len(pending), r \in Responses : SearchResponds(i, r)

SpecSuggest == Init /\ [][NextSuggest]_vars

-----------------------------------------------------------------------------
(* Vocabulary of the properties *)

\* the signals of the container, without the record of the handler's calls
Signals(s) == Enter(s)

\* what a search response or failure writes
Written(s) ==
    <<s.results, s.total, s.pagination, s.aggregations, s.suggestions, s.error>>

\* the last handler emitted an event of this type
Emits(s, type) ==
    \E k \in 1..Len(s.calls) :
        s.calls[k].call = "recordEvent" /\ s.calls[k].event.type = type

EmitsNothing(s) == \A k \in 1..Len(s.calls) : s.calls[k].call # "recordEvent"

\* the last handler made this call
Calls(s, name) == \E k \in 1..Len(s.calls) : s.calls[k].call = name

\* the arguments search() can be given
SearchArgs == {None} \cup {Some(q) : q \in ManualQueries}

\* a step of search(q) called by the application: such a step starts by
\* noting the call
SearchStep(q) ==
    /\ state'.calls # <<>>
    /\ state'.calls[1] = [call |-> "search", query |-> q]
    /\ Search(q)

\* a run of the auto-search effect: only such a step clears effectDirty
EffectStep == effectDirty /\ ~effectDirty' /\ AutoSearchEffect

\* the arrival of the response or of the failure of adapter call i
Arrives(i) ==
    \/ \E r \in Responses : SearchResponds(i, r)
    \/ \E e \in Errors : SearchErrors(i, e)

\* the debounce timer of i fires and the adapter is asked
ReachesAdapter(i) ==
    \/ AdapterCalled(i) /\ adapter # None
    \/ \E e \in Errors : AdapterThrows(i, e)

\* the step leaves the container and the pipeline alone
Untouched ==
    /\ Signals(state') = Signals(state)
    /\ EmitsNothing(state')
    /\ pending' = pending
    /\ currentSearchMeta' = currentSearchMeta
    /\ searchSubscription' = searchSubscription

-----------------------------------------------------------------------------
(* Properties of the search pipeline, checked under Spec *)

\* C1: when a search() is superseded by a newer search(), whatever the order
\* in which the two adapter calls resolve, the arrival of the response (or of
\* the failure) of the superseded call writes nothing to the container and
\* emits no event, a superseded search still waiting on its timer never
\* reaches the adapter, and the response of the newest search is what the
\* container holds once it arrives.
C1_SupersededNeverWritten ==
    [][\A i \in 1..Len(pending) :
          /\ pending[i].superseded =>
                /\ Arrives(i) =>
                      Signals(state') = Signals(state) /\ EmitsNothing(state')
                /\ ~ReachesAdapter(i)
          /\ ~pending[i].superseded /\ pending[i].live =>
                \A r \in Responses :
                    SearchResponds(i, r) =>
                        /\ state'.results = r.results
                        /\ state'.total = r.total
                        /\ state'.error = None
      ]_vars

\* the newer search has completed with a hit and written it while the call of
\* the superseded search is still unanswered
C1_Witness ==
    /\ \E i \in 1..Len(pending) :
          pending[i].superseded /\ pending[i].phase = "inflight"
    /\ Emits(state, "search_completed")
    /\ state.results # <<>>

\* C2: whenever the adapter call of the current search fails, by an error of
\* its observable or by an exception thrown by adapter.search(), the error
\* signal is set, loading is false, search_failed and no search_completed is
\* emitted, telemetry gets the error with source 'search', and nothing is
\* left unhandled.
C2_FailureCaptured ==
    [][\A i \in 1..Len(pending) :
          ( /\ pending[i].live
            /\ \E e \in Errors : SearchErrors(i, e) \/ AdapterThrows(i, e) )
          => /\ state'.error # None
             /\ ~state'.loading
             /\ Emits(state', "search_failed")
             /\ ~Emits(state', "search_completed")
             /\ \E k \in 1..Len(state'.calls) :
                   /\ state'.calls[k].call = "recordError"
                   /\ state'.calls[k].source = "search"
             /\ ~Calls(state', "reportUnhandledError")
      ]_vars

\* C3: while the error of a failed search is shown, a search() that passes the
\* adapter and length checks starts a new search: loading is true and the
\* error is cleared at once, search_started is emitted and the query waits on
\* its debounce timer; the response of a current search is written and leaves
\* the error null.
C3_RetryAfterFailure ==
    [][/\ \A q \in SearchArgs :
            ( /\ state.error # None
              /\ Accepted(state, q, adapter, config)
              /\ SearchStep(q) )
            => /\ state'.loading
               /\ state'.error = None
               /\ Emits(state', "search_started")
               /\ pending' # <<>>
               /\ pending'[Len(pending')] =
                      Instance(IF q = None THEN searchQuery(state) ELSE q[1],
                               config.debounceTime)
       /\ \A i \in 1..Len(pending), r \in Responses :
            pending[i].live /\ SearchResponds(i, r)
            => state'.results = r.results /\ state'.error = None
      ]_vars

\* C4: a search that is current when it ends, by a response, by a failure of
\* the adapter's observable or by an exception of adapter.search(), finds
\* loading true and leaves it false; the arrival of a superseded or cancelled
\* call leaves loading as it is; and loading is true as long as a search is
\* current.
C4_LoadingClearedOnce ==
    [][/\ \A i \in 1..Len(pending) :
            /\ ( /\ pending[i].live
                 /\ \/ Arrives(i)
                    \/ \E e \in Errors : AdapterThrows(i, e) )
               => state.loading /\ ~state'.loading
            /\ ~pending[i].live /\ Arrives(i)
               => state'.loading = state.loading
       /\ (\E i \in 1..Len(pending') : pending'[i].live) => state'.loading
      ]_vars

\* C6: the adapter is asked only for a search that has waited debounceTime
\* with no search() and no cancel() accepted since it was issued, hence only
\* for the last search of a burst; and every search() that passes the adapter
\* and length checks emits search_started and sets loading.
C6_Debounce ==
    [][/\ \A i \in 1..Len(pending) :
            ReachesAdapter(i) =>
                /\ quiet >= config.debounceTime
                /\ ~pending[i].superseded
                /\ ~pending[i].cancelled
       /\ \A q \in SearchArgs :
            Accepted(state, q, adapter, config) /\ SearchStep(q)
            => Emits(state', "search_started") /\ state'.loading
      ]_vars

\* C5: cancel() leaves loading false at once and leaves no timer or adapter
\* call subscribed; it writes nothing and emits nothing itself, and the later
\* arrival of the response or failure of a cancelled adapter call changes no
\* signal and emits no event; a cancelled search waiting on its timer never
\* reaches the adapter.
C5_CancelAborts ==
    [][/\ Cancel =>
            /\ ~state'.loading
            /\ \A i \in 1..Len(pending') : ~pending'[i].live
            /\ Written(state') = Written(state)
            /\ EmitsNothing(state')
       /\ \A i \in 1..Len(pending) :
            pending[i].cancelled =>
                /\ Arrives(i) =>
                      Signals(state') = Signals(state) /\ EmitsNothing(state')
                /\ ~ReachesAdapter(i)
      ]_vars

\* a search was cancelled while its adapter call was outstanding, and a hit
\* written before the cancellation is still what the container holds
C5_Witness ==
    /\ \E i \in 1..Len(pending) :
          pending[i].cancelled /\ pending[i].phase = "inflight"
    /\ ~state.loading
    /\ state.results # <<>>

\* C9: search() with no adapter installed changes no signal, emits no event
\* and starts nothing on the pipeline; it reports the problem to the logger
\* and returns. The same holds when the auto-search effect is what runs
\* without an adapter.
C9_NoAdapterNoOp ==
    [][adapter = None =>
          /\ \A q \in SearchArgs :
                SearchStep(q) => Untouched /\ Calls(state', "logger.error")
          /\ EffectStep => Untouched
      ]_vars

\* search() has just been called with no adapter installed
C9_Witness ==
    /\ adapter = None
    /\ Calls(state, "search")
    /\ Calls(state, "logger.error")

\* C10: with an adapter installed, search() for a text whose trimmed length
\* is positive and less than minQueryLength changes no signal, emits no event
\* and starts nothing; for an empty text the step is exactly the hand-over of
\* the query to the pipeline.
C10_TooShortNoOp ==
    [][adapter # None =>
          \A q \in SearchArgs :
              SearchStep(q) =>
                  LET sq == IF q = None THEN searchQuery(state) ELSE q[1]
                      n == Len(Trim(sq.query))
                      w0 == Called([Cur EXCEPT !.pending =
                                       MarkAll(@, "superseded")], "search", q)
                  IN  /\ (n > 0 /\ n < config.minQueryLength) =>
                            Untouched /\ ~Calls(state', "logger.error")
                      /\ n = 0 => Apply(searchTriggerNext(w0, sq, config))
      ]_vars

\* search() has just been called, with an adapter installed, for a text that
\* is too short after trimming, and it was the whole of the handler
C10_Witness ==
    /\ adapter # None
    /\ state.calls # <<>>
    /\ state.calls[1].call = "search"
    /\ state.calls[1].query # None
    /\ Len(Trim(state.calls[1].query[1].query)) \in 1..(config.minQueryLength - 1)
    /\ Len(state.calls) = 1

-----------------------------------------------------------------------------
(* Properties of the auto-search effect, checked under SpecAuto *)

\* a call of a mutator of the container or of setConfig
StateChange ==
    \/ \E t \in Texts : SetQuery(t)
    \/ \E f \in Filters : AddFilter(f)
    \/ \E f \in Fields : RemoveFilter(f)
    \/ \E m \in MinQueryLengths : SetConfig("minQueryLength", m)
    \/ \E b \in BOOLEAN : SetConfig("autoSearch", b)

\* C7: a run of the auto-search effect that finds autoSearch enabled, the
\* content of searchQuery different from what its previous run saw, and the
\* trimmed text at least minQueryLength long or a filter active, calls
\* search() with that query and keeps its signature; a run that finds
\* autoSearch disabled, or the text too short and no filter, calls nothing
\* and leaves container and pipeline alone; and the state changes themselves
\* call no search().
C7_AutoSearchTrigger ==
    [][/\ EffectStep =>
            LET q == searchQuery(state)
                eligible == \/ Len(Trim(q.query)) >= config.minQueryLength
                            \/ Len(q.filters) > 0
            IN  /\ (config.autoSearch /\ eligible /\ seen # Some(q)) =>
                      /\ state'.calls # <<>>
                      /\ state'.calls[1] = [call |-> "search", query |-> Some(q)]
                      /\ lastAutoSearchSignature' = Some(serializeQuery(q))
                /\ (~config.autoSearch \/ ~eligible) =>
                      Untouched /\ ~Calls(state', "search")
       /\ StateChange => pending' = pending /\ ~Calls(state', "search")
      ]_vars

\* with an adapter installed, the effect has just called search() for a
\* query whose text is shorter than minQueryLength and which has a filter,
\* and the query waits on its debounce timer
C7_Witness ==
    /\ adapter # None
    /\ pending # <<>>
    /\ pending[Len(pending)].live
    /\ pending[Len(pending)].phase = "debounce"
    /\ pending[Len(pending)].query = searchQuery(state)
    /\ state.calls # <<>>
    /\ state.calls[1] = [call |-> "search", query |-> Some(searchQuery(state))]
    /\ Len(Trim(state.query)) < config.minQueryLength
    /\ Len(state.filters) > 0
    /\ lastAutoSearchSignature = Some(serializeQuery(searchQuery(state)))

-----------------------------------------------------------------------------
(* The State Container called directly *)

\* filters on two fields with two values each
StateFilters ==
    [field : {"x", "y"}, type : {"term"}, value : {1, 2}, operator : {"OR"}]

Sorts == {<<>>, <<[field |-> "x", order |-> "asc"]>>}

PageSizes == {DefaultPageSize, 2 * DefaultPageSize}

\* results and totals given to setResults: nothing, one page, three pages
ResultSets ==
    { [results |-> <<>>, total |-> 0],
      [results |-> <<[id |-> 1]>>, total |-> 1],
      [results |-> <<[id |-> 1]>>, total |-> 2 * DefaultPageSize + 1] }

\* a call of a container method that no effect of the coordinator reads
Write(s) ==
    /\ state' = s
    /\ UNCHANGED <<adapter, config, searchSubscription, pending, currentSearchMeta,
                   lastAutoSearchSignature, effectDirty, quiet, seen, configTouched>>
    /\ UNCHANGED <<suggestVars, logVars, facetVars, destroyed>>

ClearFilters == Mutate(clearFilters(Enter(state)))

UpdateFilter(field, value) == Mutate(updateFilter(Enter(state), field, value))

SetSort(sort) == Mutate(setSort(Enter(state), sort))

SetPagination(page) == Mutate(setPagination(Enter(state), page))

SetPaginationSized(page, pageSize) ==
    Mutate(setPaginationSized(Enter(state), page, pageSize))

\* nextPage() and prevPage() write _pagination only when they change the page
NextPage ==
    IF hasNextPage(state) THEN Mutate(nextPage(Enter(state)))
    ELSE Write(nextPage(Enter(state)))

PrevPage ==
    IF hasPrevPage(state) THEN Mutate(prevPage(Enter(state)))
    ELSE Write(prevPage(Enter(state)))

Reset == Mutate(reset(Enter(state)))

\* setResults replaces _pagination only when the total differs
SetResults(results, total) ==
    /\ state' = setResults(Enter(state), results, total)
    /\ effectDirty' = (effectDirty \/ total # state.pagination.total)
    /\ UNCHANGED <<adapter, config, searchSubscription, pending, currentSearchMeta,
                   lastAutoSearchSignature, quiet, seen, configTouched>>
    /\ UNCHANGED <<suggestVars, logVars, facetVars, destroyed>>

SetLoading(loading) == Write(setLoading(Enter(state), loading))

SetError(error) == Write(setError(Enter(state), error))

NextState ==
    \/ \E t \in Texts : SetQuery(t)
    \/ \E f \in StateFilters : AddFilter(f)
    \/ \E f \in {"x", "y"} : RemoveFilter(f)
    \/ ClearFilters
    \/ \E f \in {"x", "y"}, v \in {1, 2} : UpdateFilter(f, v)
    \/ \E o \in Sorts : SetSort(o)
    \/ \E p \in Pages : SetPagination(p)
    \/ \E p \in Pages, z \in PageSizes : SetPaginationSized(p, z)
    \/ NextPage
    \/ PrevPage
    \/ \E r \in ResultSets : SetResults(r.results, r.total)
    \/ \E b \in BOOLEAN : SetLoading(b)
    \/ \E e \in {None} \cup {Some(x) : x \in Errors} : SetError(e)
    \/ Reset

SpecState == Init /\ [][NextState]_vars

-----------------------------------------------------------------------------
(* The State Container with every one of its signals written, and handed over
   to a freshly constructed container through a snapshot *)

AggregationSets == {<<>>, [field |-> "x"]}

\* a container as constructed, its event history switched off as in Init
FreshState == setEventHistoryLimit(InitialState, 0)

SetAggregations(aggregations) ==
    Write(setAggregations(Enter(state), aggregations))

SetSuggestions(suggestions) == Write(setSuggestions(Enter(state), suggestions))

SetLoadingSuggestions(loading) ==
    Write(setLoadingSuggestions(Enter(state), loading))

\* getSnapshot() of this container, restoreSnapshot() of the result on a freshly
\* constructed container, which is the container from then on
Hydrate ==
    Mutate(restoreSnapshot(
        [FreshState EXCEPT !.calls = <<[call |-> "restoreSnapshot"]>>],
        getSnapshot(state)))

NextContainer ==
    \/ NextState
    \/ \E a \in AggregationSets : SetAggregations(a)
    \/ \E l \in SuggestionLists : SetSuggestions(l)
    \/ \E b \in BOOLEAN : SetLoadingSuggestions(b)
    \/ Hydrate

SpecContainer == Init /\ [][NextContainer]_vars

-----------------------------------------------------------------------------
(* Facet Manager: FacetManagerService, and the facet methods of SearchProvider.
   A Set is the sequence of its elements in insertion order; an optional field
   that is absent is <<>> and one that is present is <<value>>. *)

\* the Facet Manager and the State Container that SearchProvider holds
FacetWorld(fs, lastChange, s) == [facets |-> fs, lastChange |-> lastChange, state |-> s]

\* Map.get(facetId) on the facet map (<<>> = undefined)
getFacet(fs, facetId) ==
    IF \E i \in 1..Len(fs) : fs[i].config.id = facetId
    THEN Some(fs[CHOOSE i \in 1..Len(fs) : fs[i].config.id = facetId])
    ELSE None

\* Map.set(facetId, facetState) on a copy of the facet map
FacetMapSet(fs, facetState) ==
    IF \E i \in 1..Len(fs) : fs[i].config.id = facetState.config.id
    THEN [i \in 1..Len(fs) |->
             IF fs[i].config.id = facetState.config.id THEN facetState ELSE fs[i]]
    ELSE Append(fs, facetState)

\* Number.prototype.toString of a natural number, as its decimal digits
RECURSIVE toString(_)
toString(n) == IF n < 10 THEN <<n>> ELSE Append(toString(n \div 10), n % 10)

\* a.localeCompare(b) < 0 for two strings of digits
RECURSIVE LocaleBefore(_, _)
LocaleBefore(a, b) ==
    IF b = <<>> THEN FALSE
    ELSE IF a = <<>> THEN TRUE
    ELSE IF Head(a) # Head(b) THEN Head(a) < Head(b)
    ELSE LocaleBefore(Tail(a), Tail(b))

\* getInitialValues(cfg)
getInitialValues(cfg) ==
    IF cfg.options # None
    THEN [i \in 1..Len(cfg.options[1]) |->
             [ key |-> cfg.options[1][i].value,
               label |-> cfg.options[1][i].label,
               count |-> 0,
               selected |-> FALSE,
               disabled |-> None ]]
    ELSE <<>>

\* facetSelectionToFilter that keeps the first selected key only
facetSelectionToFilterFirstKey(facetState) ==
    IF Len(facetState.selectedValues) = 0 THEN None
    ELSE Some([field |-> facetState.config.field, type |-> "term",
               value |-> facetState.selectedValues[1]])

\* facetSelectionToFilter(facetState) (<<>> = null)
facetSelectionToFilter(facetState) ==
    LET cfg == facetState.config
        values == facetState.selectedValues
    IN  IF Len(values) = 0 THEN None
        ELSE IF cfg.type \in {"text", "text-typeahead", "checkbox"}
        THEN IF Len(values) = 1
             THEN Some([field |-> cfg.field, type |-> "term", value |-> values[1]])
             ELSE Some([field |-> cfg.field, type |-> "terms", value |-> values,
                        operator |-> IF cfg.operator # None
                                     THEN cfg.operator[1] ELSE "OR"])
        ELSE IF cfg.type = "number"
        THEN Some([field |-> cfg.field, type |-> "term", value |-> values[1]])
        ELSE IF cfg.type \in {"number-range", "range", "slider"}
        THEN Some([field |-> cfg.field, type |-> "range",
                   value |-> [gte |-> values[1],
                              lte |-> IF Len(values) >= 2 THEN values[2]
                                      ELSE values[1]]])
        ELSE IF cfg.type \in {"radio", "toggle"}
        THEN Some([field |-> cfg.field, type |-> "term", value |-> values[1]])
        ELSE IF Len(values) = 1
        THEN Some([field |-> cfg.field, type |-> "term", value |-> values[1]])
        ELSE Some([field |-> cfg.field, type |-> "terms", value |-> values])

\* appliedFilters that stops after the first facet
appliedFiltersFirst(fs) ==
    IF fs = <<>> \/ facetSelectionToFilter(fs[1]) = None THEN <<>>
    ELSE <<facetSelectionToFilter(fs[1])[1]>>

\* readonly appliedFilters = computed(...)
RECURSIVE appliedFilters(_)
appliedFilters(fs) ==
    IF fs = <<>> THEN <<>>
    ELSE LET front == appliedFilters(SubSeq(fs, 1, Len(fs) - 1))
             filter == facetSelectionToFilter(fs[Len(fs)])
         IN  IF filter # None THEN Append(front, filter[1]) ELSE front

addFacet(w, cfg) ==
    LET existingState == getFacet(w.facets, cfg.id)
        newState ==
            [ config |-> cfg,
              values |-> IF existingState # None THEN existingState[1].values
                         ELSE getInitialValues(cfg),
              selectedValues |-> IF existingState # None
                                 THEN existingState[1].selectedValues ELSE <<>>,
              collapsed |-> IF cfg.collapsed # None THEN cfg.collapsed[1]
                            ELSE FALSE,
              visibleCount |-> IF cfg.maxValues # None THEN cfg.maxValues[1]
                               ELSE DefaultVisibleCount,
              loading |-> FALSE ]
    IN  [w EXCEPT !.facets = FacetMapSet(@, newState)]

removeFacet(w, facetId) ==
    [w EXCEPT !.facets = SelectSeq(@, LAMBDA f : f.config.id # facetId)]

loggerWarn(s, message) ==
    [s EXCEPT !.calls = Append(@, [call |-> "logger.warn", message |-> message])]

\* values.has(key)
Has(values, key) == \E i \in 1..Len(values) : values[i] = key

\* updateFacetSelection that marks every value as selected
updateFacetSelectionAll(w, facetId, values) ==
    LET found == getFacet(w.facets, facetId)
    IN  IF found = None
        THEN [w EXCEPT !.state = loggerWarn(@, <<"Facet not found", facetId>>)]
        ELSE LET facetState == found[1]
                 updatedState ==
                     [facetState EXCEPT
                         !.selectedValues = values,
                         !.values = [i \in 1..Len(@) |->
                                        [@[i] EXCEPT !.selected = TRUE]]]
             IN  [w EXCEPT
                     !.facets = FacetMapSet(@, updatedState),
                     !.lastChange =
                         Some([ facetId |-> facetId,
                                selectedValues |-> values,
                                previousValues |-> facetState.selectedValues,
                                config |-> facetState.config,
                                filter |-> facetSelectionToFilter(updatedState) ])]

updateFacetSelection(w, facetId, values) ==
    LET found == getFacet(w.facets, facetId)
    IN  IF found = None
        THEN [w EXCEPT !.state = loggerWarn(@, <<"Facet not found", facetId>>)]
        ELSE LET facetState == found[1]
                 updatedState ==
                     [facetState EXCEPT
                         !.selectedValues = values,
                         !.values = [i \in 1..Len(@) |->
                                        [@[i] EXCEPT !.selected =
                                            Has(values, facetState.values[i].key)]]]
             IN  [w EXCEPT
                     !.facets = FacetMapSet(@, updatedState),
                     !.lastChange =
                         Some([ facetId |-> facetId,
                                selectedValues |-> values,
                                previousValues |-> facetState.selectedValues,
                                config |-> facetState.config,
                                filter |-> facetSelectionToFilter(updatedState) ])]

clearFacet(w, facetId) == updateFacetSelection(w, facetId, <<>>)

\* clearAllFacets(): clearFacet for every id of a copy of the map, in its order
RECURSIVE clearEach(_, _)
clearEach(w, ids) ==
    IF ids = <<>> THEN w ELSE clearEach(clearFacet(w, Head(ids)), Tail(ids))

clearAllFacets(w) ==
    clearEach(w, [i \in 1..Len(w.facets) |-> w.facets[i].config.id])

toggleCollapsed(w, facetId) ==
    LET found == getFacet(w.facets, facetId)
    IN  IF found = None THEN w
        ELSE [w EXCEPT !.facets =
                 FacetMapSet(@, [found[1] EXCEPT !.collapsed = ~@])]

\* Array.prototype.sort with a comparator, which is stable: x is put before
\* the first entry it has to precede
\* the comparators of aggregationToFacetValues, as "a goes before b":
\* b.count - a.count < 0, and a.label.localeCompare(b.label) < 0
Before(a, b, sort) ==
    IF sort = "count" THEN b.count - a.count < 0
    ELSE LocaleBefore(a.label, b.label)

RECURSIVE InsertSorted(_, _, _)
InsertSorted(sorted, x, sort) ==
    IF sorted = <<>> THEN <<x>>
    ELSE IF Before(x, Head(sorted), sort) THEN <<x>> \o sorted
    ELSE <<Head(sorted)>> \o InsertSorted(Tail(sorted), x, sort)

RECURSIVE StableSort(_, _)
StableSort(seq, sort) ==
    IF seq = <<>> THEN <<>>
    ELSE InsertSorted(StableSort(SubSeq(seq, 1, Len(seq) - 1), sort),
                      seq[Len(seq)], sort)

\* aggregationToFacetValues without the sorting
aggregationToFacetValuesUnsorted(aggregation, cfg, selectedValues) ==
    IF aggregation.buckets = None THEN <<>>
    ELSE LET buckets == aggregation.buckets[1]
             mapped == [i \in 1..Len(buckets) |->
                           [ key |-> buckets[i].key,
                             label |-> toString(buckets[i].key),
                             count |-> buckets[i].doc_count,
                             selected |-> Has(selectedValues, buckets[i].key),
                             disabled |-> Some(buckets[i].doc_count = 0) ]]
         IN  IF cfg.maxValues # None /\ cfg.maxValues[1] # 0
                  /\ Len(mapped) > cfg.maxValues[1]
             THEN SubSeq(mapped, 1, cfg.maxValues[1])
             ELSE mapped

\* aggregationToFacetValues(aggregation, cfg, selectedValues)
aggregationToFacetValues(aggregation, cfg, selectedValues) ==
    IF aggregation.buckets = None THEN <<>>
    ELSE LET buckets == aggregation.buckets[1]
             mapped == [i \in 1..Len(buckets) |->
                           [ key |-> buckets[i].key,
                             label |-> toString(buckets[i].key),
                             count |-> buckets[i].doc_count,
                             selected |-> Has(selectedValues, buckets[i].key),
                             disabled |-> Some(buckets[i].doc_count = 0) ]]
             sorted ==
                 IF cfg.sort = Some("count") THEN StableSort(mapped, "count")
                 ELSE IF cfg.sort = Some("key") THEN StableSort(mapped, "key")
                 ELSE mapped
             limited ==
                 IF cfg.maxValues # None /\ cfg.maxValues[1] # 0
                      /\ Len(sorted) > cfg.maxValues[1]
                 THEN SubSeq(sorted, 1, cfg.maxValues[1])
                 ELSE sorted
         IN  [i \in 1..Len(limited) |->
                 [limited[i] EXCEPT !.selected =
                     Has(selectedValues, limited[i].key)]]

updateFacetValues(w, facetId, aggregation) ==
    LET found == getFacet(w.facets, facetId)
    IN  IF found = None THEN w
        ELSE [w EXCEPT !.facets =
                 FacetMapSet(@, [found[1] EXCEPT !.values =
                     aggregationToFacetValues(aggregation, found[1].config,
                                              found[1].selectedValues)])]

\* SearchProvider.updateFacetSelection(facetId, values)
providerUpdateFacetSelection(w, facetId, values) ==
    LET w1 == updateFacetSelection(w, facetId, values)
        changeEvent == w1.lastChange
    IN  IF changeEvent = None THEN w1
        ELSE IF changeEvent[1].filter # None
        THEN [w1 EXCEPT !.state = addFilter(@, changeEvent[1].filter[1])]
        ELSE [w1 EXCEPT !.state = removeFilter(@, changeEvent[1].config.field)]

\* SearchProvider.clearFacet(facetId)
providerClearFacet(w, facetId) ==
    LET facet == getFacet(w.facets, facetId)
        w1 == clearFacet(w, facetId)
    IN  IF facet # None
        THEN [w1 EXCEPT !.state = removeFilter(@, facet[1].config.field)]
        ELSE w1

RECURSIVE removeEach(_, _)
removeEach(s, fields) ==
    IF fields = <<>> THEN s
    ELSE removeEach(removeFilter(s, Head(fields)), Tail(fields))

\* SearchProvider.clearAllFacets()
providerClearAllFacets(w) ==
    clearAllFacets(
        [w EXCEPT !.state =
            removeEach(@, [i \in 1..Len(w.facets) |-> w.facets[i].config.field])])

\* the keys that can be selected, and the selections: Sets in insertion order
FacetKeys == {2, 10}

Selections ==
    {<<>>} \cup {<<k>> : k \in FacetKeys}
           \cup {p \in FacetKeys \X FacetKeys : p[1] # p[2]}

FacetIds == {"f", "g"}

FacetTypes ==
    {"text", "checkbox", "radio", "toggle", "number-range", "range", "slider"}

Operators == {None, Some("AND")}

Sortings == {Some("count"), Some("key"), Some("custom")}

FacetOptions ==
    << [value |-> 2, label |-> toString(2)], [value |-> 10, label |-> toString(10)] >>

FacetConfig(id, field, type, operator, sort, maxValues, options) ==
    [ id |-> id, field |-> field, type |-> type, collapsed |-> None,
      sort |-> sort, maxValues |-> maxValues, options |-> options,
      operator |-> operator ]

\* facet f on field x: every type and operator, with static options
TypedConfigs ==
    { FacetConfig("f", "x", t, o, None, None, Some(FacetOptions)) :
          t \in FacetTypes, o \in Operators }

\* facet g on field y: every sort order, without maxValues and with a positive
\* maxValues (a maxValues of 0 is falsy at line 299 and truncates nothing)
SortedConfigs ==
    { FacetConfig("g", "y", "text", None, o, m, None) :
          o \in Sortings, m \in {None, Some(2)} }

\* a text facet f with static options
TextConfig == FacetConfig("f", "x", "text", None, None, None, Some(FacetOptions))

\* facet f again, with the option 10 alone
NarrowConfig ==
    FacetConfig("f", "x", "text", None, None, None,
                Some(<<[value |-> 10, label |-> toString(10)]>>))

\* a range facet g fed by aggregations
RangeConfig == FacetConfig("g", "y", "range", None, None, None, None)

\* what the backend may return for a field: no buckets, or three buckets whose
\* order by count, by label and as given differ
Aggregations ==
    { [type |-> "terms", buckets |-> None],
      [type |-> "terms",
       buckets |-> Some(<< [key |-> 2, doc_count |-> 5],
                           [key |-> 10, doc_count |-> 0],
                           [key |-> 3, doc_count |-> 3] >>)] }

CurFacet == FacetWorld(facets, changeEvents, Enter(state))

\* a call of a facet method of SearchProvider; the auto-search effect is
\* scheduled when the call wrote the filters of the container
ApplyFacet(w) ==
    /\ facets' = w.facets
    /\ changeEvents' = w.lastChange
    /\ state' = w.state
    /\ effectDirty' = (effectDirty \/ ~EmitsNothing(w.state))
    /\ UNCHANGED <<adapter, config, searchSubscription, pending, currentSearchMeta,
                   lastAutoSearchSignature, quiet, seen, configTouched,
                   suggestVars, logVars, destroyed>>

AddFacet(cfg) == ApplyFacet(addFacet(CurFacet, cfg))

RemoveFacet(facetId) == ApplyFacet(removeFacet(CurFacet, facetId))

\* the call is noted first, as for search()
UpdateFacetSelection(facetId, values) ==
    ApplyFacet(providerUpdateFacetSelection(
        [CurFacet EXCEPT !.state.calls =
            <<[call |-> "updateFacetSelection", facetId |-> facetId,
               values |-> values]>>],
        facetId, values))

ClearFacet(facetId) == ApplyFacet(providerClearFacet(CurFacet, facetId))

ClearAllFacets == ApplyFacet(providerClearAllFacets(CurFacet))

ToggleFacetCollapsed(facetId) == ApplyFacet(toggleCollapsed(CurFacet, facetId))

UpdateFacetValues(facetId, aggregation) ==
    ApplyFacet(updateFacetValues(CurFacet, facetId, aggregation))

\* one facet of every type and operator, and its selection
NextFacetFilter ==
    \/ \E c \in TypedConfigs : AddFacet(c)
    \/ \E v \in Selections : UpdateFacetSelection("f", v)

SpecFacetFilter == Init /\ [][NextFacetFilter]_vars

\* two facets driven through SearchProvider
NextFacet ==
    \/ \E c \in {TextConfig, RangeConfig} : AddFacet(c)
    \/ \E id \in FacetIds : RemoveFacet(id)
    \/ \E id \in FacetIds, v \in Selections : UpdateFacetSelection(id, v)
    \/ \E id \in FacetIds : ClearFacet(id)
    \/ ClearAllFacets
    \/ \E id \in FacetIds : ToggleFacetCollapsed(id)

SpecFacet == Init /\ [][NextFacet]_vars

\* facet f registered again with other options, and its selection
NextFacetReplace ==
    \/ \E c \in {TextConfig, NarrowConfig} : AddFacet(c)
    \/ \E v \in Selections : UpdateFacetSelection("f", v)

SpecFacetReplace == Init /\ [][NextFacetReplace]_vars

\* every facet method called with the id of facet f, which is registered or
\* not, and with the id g, which never is; the application may clear the
\* filters of the container as well
NextFacetUnknown ==
    \/ AddFacet(TextConfig)
    \/ ClearFilters
    \/ \E id \in FacetIds : RemoveFacet(id)
    \/ \E id \in FacetIds, v \in Selections : UpdateFacetSelection(id, v)
    \/ \E id \in FacetIds : ClearFacet(id)
    \/ ClearAllFacets
    \/ \E id \in FacetIds : ToggleFacetCollapsed(id)
    \/ \E id \in FacetIds, a \in Aggregations : UpdateFacetValues(id, a)

SpecFacetUnknown == Init /\ [][NextFacetUnknown]_vars

\* FacetManagerService.updateFacetSelection called directly
UpdateSelection(facetId, values) ==
    ApplyFacet(updateFacetSelection(CurFacet, facetId, values))

\* the values of facet g, in every sort order, rebuilt from aggregations next
\* to facet f
NextFacetValues ==
    \/ \E c \in {TextConfig} \cup SortedConfigs : AddFacet(c)
    \/ \E v \in Selections : UpdateSelection("g", v)
    \/ \E id \in FacetIds, a \in Aggregations : UpdateFacetValues(id, a)

SpecFacetValues == Init /\ [][NextFacetValues]_vars

-----------------------------------------------------------------------------
(* The event history and the config-sync effect *)

\* the limits given to setEventHistoryLimit
Limits == {-1, 0, 2, 3}

\* the limit given to setConfig
ConfigLimits == {3}

\* the texts given to setQuery
LogTexts == {<<>>, <<"a", "b">>}

\* the engine as constructed: the history limit is the default
InitLog ==
    /\ state = InitialState
    /\ adapter = None
    /\ config = DefaultConfig
    /\ searchSubscription = TRUE
    /\ pending = <<>>
    /\ currentSearchMeta = None
    /\ lastAutoSearchSignature = None
    /\ effectDirty = TRUE
    /\ quiet = QuietCap
    /\ seen = None
    /\ configTouched = FALSE
    /\ suggestSubscription = FALSE
    /\ suggestPending = <<>>
    /\ currentSuggestMeta = None
    /\ configDirty = TRUE
    /\ emitted = <<>>
    /\ limitStable = TRUE
    /\ requestedLimit = None
    /\ facets = <<>>
    /\ changeEvents = None
    /\ destroyed = FALSE

\* the events the last handler handed to telemetry, in order
EventsOf(calls) ==
    LET rec == SelectSeq(calls, LAMBDA c : c.call = "recordEvent")
    IN  [k \in 1..Len(rec) |-> rec[k].event]

\* a call of a container method, its events noted in the emission sequence
Logged(s) ==
    /\ state' = s
    /\ emitted' = emitted \o EventsOf(s.calls)
    /\ Len(emitted') <= MaxEmitted
    /\ UNCHANGED <<adapter, config, searchSubscription, pending, currentSearchMeta,
                   lastAutoSearchSignature, effectDirty, quiet, seen, configTouched,
                   suggestVars, configDirty, limitStable, requestedLimit,
                   facetVars, destroyed>>

\* a call that sets the history limit or clears the log
Relimited(s) ==
    /\ state' = s
    /\ limitStable' = (limitStable /\ emitted = <<>>)
    /\ UNCHANGED <<adapter, config, searchSubscription, pending, currentSearchMeta,
                   lastAutoSearchSignature, effectDirty, quiet, seen, configTouched,
                   suggestVars, emitted, facetVars, destroyed>>

LogSetQuery(text) == Logged(setQuery(Enter(state), text))

LogClearFilters == Logged(clearFilters(Enter(state)))

SetEventHistoryLimit(limit) ==
    /\ Relimited(setEventHistoryLimit(Enter(state), limit))
    /\ requestedLimit' = None
    /\ UNCHANGED configDirty

SetEventHistoryLimitNull ==
    /\ Relimited(setEventHistoryLimitNull(Enter(state)))
    /\ requestedLimit' = None
    /\ UNCHANGED configDirty

ClearEvents ==
    /\ Relimited(clearEvents(Enter(state)))
    /\ UNCHANGED <<configDirty, requestedLimit>>

\* the effect of setupConfigSync: it runs once after construction and after
\* every write of _config
configSyncEffect(s, cfg) ==
    IF eventHistoryLimit(cfg) # None
    THEN setEventHistoryLimit(s, eventHistoryLimit(cfg)[1])
    ELSE setEventHistoryLimitDefault(s)

ConfigSyncEffect ==
    /\ configDirty
    /\ ~destroyed
    /\ configDirty' = FALSE
    /\ Relimited(configSyncEffect(Enter(state), config))
    /\ UNCHANGED requestedLimit

NextLog ==
    \/ \E t \in LogTexts : LogSetQuery(t)
    \/ LogClearFilters
    \/ \E n \in Limits : SetEventHistoryLimit(n)
    \/ SetEventHistoryLimitNull
    \/ ClearEvents
    \/ \E n \in ConfigLimits : SetConfig("eventHistoryLimit", n)
    \/ SetConfig("minQueryLength", DefaultMinQueryLength + 1)
    \/ ConfigSyncEffect

SpecLog == InitLog /\ [][NextLog]_vars

-----------------------------------------------------------------------------
(* Properties of the suggestion pipeline, checked under SpecSuggest *)

\* a step of suggest(t) called by the application
SuggestStep(t) ==
    /\ state'.calls # <<>>
    /\ state'.calls[1] = [call |-> "suggest", query |-> t]
    /\ Suggest(t)

\* the step leaves the container and the suggestion pipeline alone
SuggestUntouched ==
    /\ Signals(state') = Signals(state)
    /\ EmitsNothing(state')
    /\ UNCHANGED suggestVars

\* the step clears the suggestions and asks nothing of the pipeline
ClearsOnly ==
    /\ state'.suggestions = <<>>
    /\ Emits(state', "suggestions_cleared")
    /\ ~Emits(state', "suggestions_requested")
    /\ UNCHANGED suggestVars

\* the step is the hand-over of t to the suggestion pipeline
Enqueues(t) ==
    ApplySuggest(suggestTriggerNext(
        Called([CurSuggest EXCEPT !.pending = MarkAll(@, "superseded")],
               "suggest", t), t, config))

\* C11 as stated: suggest(t) changes nothing when the adapter has no suggest;
\* otherwise it clears the suggestions and asks nothing of the adapter when t
\* has fewer than minQueryLength characters, and hands t to the suggestion
\* pipeline when it has at least that many.
C11_SuggestByLength ==
    [][\A t \in Texts :
          SuggestStep(t) =>
              /\ (adapter = None \/ ~adapter[1].suggest) => SuggestUntouched
              /\ (adapter # None /\ adapter[1].suggest) =>
                    IF Len(t) < config.minQueryLength
                    THEN ClearsOnly ELSE Enqueues(t)
      ]_vars

\* C11, amended: the length that decides is that of the trimmed text:
\* suggest(t) changes nothing when the adapter has no suggest; otherwise it
\* clears the suggestions and asks nothing of the adapter when the trimmed t
\* has fewer than minQueryLength characters, and hands t to the suggestion
\* pipeline when the trimmed t has at least that many.
C11_SuggestByTrimmedLength ==
    [][\A t \in Texts :
          SuggestStep(t) =>
              /\ (adapter = None \/ ~adapter[1].suggest) => SuggestUntouched
              /\ (adapter # None /\ adapter[1].suggest) =>
                    IF Len(Trim(t)) < config.minQueryLength
                    THEN ClearsOnly ELSE Enqueues(t)
      ]_vars

\* suggest() has just been called, with an adapter that implements suggest,
\* for a text that has minQueryLength characters but fewer once trimmed: the
\* suggestions were cleared and nothing waits on the pipeline
C11_Witness ==
    /\ adapter # None /\ adapter[1].suggest
    /\ state.calls # <<>>
    /\ state.calls[1].call = "suggest"
    /\ Len(state.calls[1].query) >= config.minQueryLength
    /\ Len(Trim(state.calls[1].query)) < config.minQueryLength
    /\ Emits(state, "suggestions_cleared")
    /\ suggestPending = <<>>

\* the arrival of the suggestions or of the failure of suggestion call i
SuggestArrives(i) ==
    \/ \E l \in SuggestionLists : SuggestResponds(i, l)
    \/ \E e \in Errors : SuggestErrors(i, e)

\* the debounce timer of suggestion request i fires and the adapter is asked
SuggestReachesAdapter(i) ==
    \/ SuggestCalled(i) /\ adapter # None /\ adapter[1].suggest
    \/ \E e \in Errors : SuggestThrows(i, e)

\* C12: the arrival of the suggestions (or of the failure) of a suggest()
\* superseded by a newer suggest() writes nothing and emits nothing, and a
\* superseded request still waiting on its timer never reaches the adapter;
\* a search() or a cancel() leaves the suggestion pipeline, its timers and
\* the suggestion signals as they are; a suggest() leaves the search
\* pipeline, its timers, loading and the results as they are.
C12_SuggestIndependent ==
    [][/\ \A i \in 1..Len(suggestPending) :
            suggestPending[i].superseded =>
                /\ SuggestArrives(i) =>
                      Signals(state') = Signals(state) /\ EmitsNothing(state')
                /\ ~SuggestReachesAdapter(i)
       /\ ((\E q \in SearchArgs : SearchStep(q)) \/ Cancel) =>
            /\ UNCHANGED suggestVars
            /\ state'.suggestions = state.suggestions
            /\ state'.loadingSuggestions = state.loadingSuggestions
       /\ (\E t \in Texts : SuggestStep(t)) =>
            /\ UNCHANGED <<pending, searchSubscription, currentSearchMeta, quiet>>
            /\ state'.loading = state.loading
            /\ Written(state') =
                  Written([state EXCEPT !.suggestions = state'.suggestions])
      ]_vars

\* the newer suggest() has had its suggestions written while the call of the
\* superseded one is still unanswered and a search waits for its response
C12_Witness ==
    /\ \E i \in 1..Len(suggestPending) :
          suggestPending[i].superseded /\ suggestPending[i].phase = "inflight"
    /\ \E k \in 1..Len(state.calls) :
          /\ state.calls[k].call = "recordTiming"
          /\ state.calls[k].name = "suggestions"
    /\ state.suggestions # <<>>
    /\ \E i \in 1..Len(pending) : pending[i].live /\ pending[i].phase = "inflight"

\* C13: whenever the adapter call of the current suggestion request fails, by
\* an error of its observable or by an exception of adapter.suggest(), the
\* error signal of the container is set, telemetry gets the error with source
\* 'suggestions', and nothing is left unhandled.
C13_SuggestFailureCaptured ==
    [][\A i \in 1..Len(suggestPending) :
          ( /\ suggestPending[i].live
            /\ \E e \in Errors : SuggestErrors(i, e) \/ SuggestThrows(i, e) )
          => /\ state'.error # None
             /\ \E k \in 1..Len(state'.calls) :
                   /\ state'.calls[k].call = "recordError"
                   /\ state'.calls[k].source = "suggestions"
             /\ ~Calls(state', "reportUnhandledError")
      ]_vars

-----------------------------------------------------------------------------
(* Properties of the State Container, checked under SpecState *)

\* currentPage
currentPage(s) == s.pagination.page

\* a call of one of the methods that change what is searched for
ResettingCall ==
    \/ \E t \in Texts : SetQuery(t)
    \/ \E f \in StateFilters : AddFilter(f)
    \/ \E f \in {"x", "y"} : RemoveFilter(f)
    \/ ClearFilters
    \/ \E o \in Sorts : SetSort(o)

\* C14: currentPage is 1 right after every call of setQuery, addFilter,
\* removeFilter, clearFilters or setSort, whatever it was before, and
\* setPagination(page), with or without a page size, leaves the page at the
\* given value.
C14_PageReset ==
    [][/\ ResettingCall => currentPage(state') = 1
       /\ \A p \in Pages :
              (SetPagination(p) \/ \E z \in PageSizes : SetPaginationSized(p, z))
                  => currentPage(state') = p
      ]_vars

\* setQuery has just been called in a container whose page size was changed
\* by setPagination, and the page is 1
C14_Witness ==
    /\ Emits(state, "query_changed")
    /\ state.pagination.pageSize # DefaultPageSize
    /\ currentPage(state) = 1

\* C15: loading and a non-null error never hold together.  The same invariant
\* holds in Spec, SpecAuto and SpecSuggest, where the pipeline makes the calls
\* of setLoading and setError.
C15_LoadingErrorExclusive == ~(state.loading /\ state.error # None)

\* an error is recorded and loading is off
C15_Witness == state.error # None /\ ~state.loading

\* C16: pagination.total equals total in every state of the container.
C16_TotalConsistent == state.pagination.total = state.total

\* setResults stored a total of several pages
C16_Witness ==
    /\ state.total > DefaultPageSize
    /\ state.pagination.total = state.total

\* the filters of this field
FiltersOf(s, field) == SelectSeq(s.filters, LAMBDA f : f.field = field)

\* C17: after every call the filter map holds at most one filter per field,
\* and after addFilter(f) the one filter of f.field is f.
C17_FilterUnique ==
    [][/\ \A field \in {"x", "y"} : Len(FiltersOf(state', field)) <= 1
       /\ \A f \in StateFilters :
              AddFilter(f) => FiltersOf(state', f.field) = <<f>>
      ]_vars

\* addFilter has just been called for a field, with the second value, while
\* the other field has a filter too
C17_Witness ==
    /\ Emits(state, "filter_added")
    /\ Len(state.filters) = 2
    /\ \E i \in 1..2 : state.filters[i].field = "x" /\ state.filters[i].value = 2

\* C18: searchQuery is the text, the page size, the offset
\* (page - 1) * pageSize, the sort list and the filters in insertion order;
\* page 2 with page size 10 gives offset 10 and size 10.
C18_DerivedQuery ==
    LET q == searchQuery(state) IN
    /\ q = [ query |-> state.query,
             size |-> state.pagination.pageSize,
             from |-> (state.pagination.page - 1) * state.pagination.pageSize,
             sort |-> state.sort,
             filters |-> state.filters ]
    /\ (state.pagination.page = 2 /\ state.pagination.pageSize = 10)
           => (q.from = 10 /\ q.size = 10)

\* a text, page 2 of size 10, one sort and one filter
C18_Witness ==
    /\ state.query = <<"a", "b">>
    /\ state.pagination.page = 2
    /\ state.pagination.pageSize = 10
    /\ Len(state.sort) = 1
    /\ Len(state.filters) = 1

-----------------------------------------------------------------------------
(* Properties of the event history, checked under SpecLog *)

\* a is what is left of b when some of its oldest entries are removed
IsSuffix(a, b) ==
    /\ Len(a) <= Len(b)
    /\ a = SubSeq(b, Len(b) - Len(a) + 1, Len(b))

\* the min(n, Len(seq)) last entries of seq, in order
MostRecent(seq, n) ==
    SubSeq(seq, Len(seq) - Min(n, Len(seq)) + 1, Len(seq))

\* C19: after every call the event log is a contiguous suffix of the sequence
\* of all events emitted so far; a call removes events only from the oldest end
\* of the log; with limit n > 0 the log holds at most n events, and exactly the
\* min(n, k) most recent of the k emitted ones when the limit has been n and
\* the log was not cleared since the first emission; with limit 0 the log is
\* empty.
C19_EventHistoryBound ==
    [][LET log == state'.events
           limit == state'.eventHistoryLimit
       IN  /\ IsSuffix(log, emitted')
           /\ IsSuffix(log, state.events \o EventsOf(state'.calls))
           /\ limit # None =>
                  /\ Len(log) <= limit[1]
                  /\ limit[1] = 0 => log = <<>>
                  /\ (limit[1] > 0 /\ limitStable') =>
                         log = MostRecent(emitted', limit[1])
      ]_vars

\* limit 3 since before the first event, five events emitted, and the log
\* holds the last three of them
C19_Witness ==
    /\ state.eventHistoryLimit = Some(3)
    /\ limitStable
    /\ Len(emitted) = 5
    /\ state.events = SubSeq(emitted, 3, 5)
    /\ emitted[2] # emitted[3]

\* Math.max(0, Math.floor(limit)) of an integer
Normalized(limit) == IF limit < 0 THEN 0 ELSE limit

\* C20: once the config-sync effect has run after setConfig({eventHistoryLimit:
\* n}), and after any later setConfig that names no limit, the event history
\* limit of the container is n and at most n events are retained.
C20_ConfigLimitKept ==
    (requestedLimit # None /\ ~configDirty) =>
        /\ state.eventHistoryLimit = Some(Normalized(requestedLimit[1]))
        /\ Len(state.events) <= Normalized(requestedLimit[1])

-----------------------------------------------------------------------------
(* Properties of the State Container, checked under SpecContainer *)

\* the fields a snapshot carries
SnapshotFields ==
    {"query", "filters", "sort", "pagination", "results", "total", "loading",
     "error", "suggestions", "aggregations"}

\* a step of the hand-over: such a step starts by noting the restoreSnapshot call
HydrateStep == Calls(state', "restoreSnapshot") /\ Hydrate

\* C21: restoreSnapshot(getSnapshot()) applied to a freshly constructed
\* container gives a container with the same query, filters (in the same
\* order), sort, pagination, results, total, loading, error, suggestions and
\* aggregations; its event log is as empty as before and no event is emitted.
C21_SnapshotRoundTrip ==
    [][HydrateStep =>
          /\ \A f \in SnapshotFields : state'[f] = state[f]
          /\ state'.events = FreshState.events
          /\ EmitsNothing(state')
      ]_vars

\* a container just restored: two filters with the later field first, page 2,
\* a result, an error, a sort, suggestions and aggregations
C21_Witness ==
    /\ Calls(state, "restoreSnapshot")
    /\ Len(state.filters) = 2
    /\ state.filters[1].field = "y"
    /\ state.query # <<>>
    /\ state.pagination.page = 2
    /\ state.results # <<>>
    /\ state.error # None
    /\ state.sort # <<>>
    /\ state.suggestions # <<>>
    /\ state.aggregations # <<>>

\* the fields C22 names
ResetFields ==
    {"query", "results", "loading", "loadingSuggestions", "error", "total",
     "filters", "sort", "pagination", "aggregations", "suggestions"}

\* C22: after reset() every field (query, results, loading, the
\* suggestion-loading flag, error, total, filters, sort, pagination,
\* aggregations, suggestions) has the value it has in a freshly constructed
\* container.
C22_ResetRestoresDefaults ==
    [][Reset => \A f \in ResetFields : state'[f] = InitialState[f]]_vars

-----------------------------------------------------------------------------
(* Page navigation, checked under SpecState *)

Max(a, b) == IF a > b THEN a ELSE b

\* 1 <= currentPage <= max(1, totalPages)
PageInRange(s) ==
    currentPage(s) >= 1 /\ currentPage(s) <= Max(1, totalPages(s))

\* the step changes no signal of the container and emits nothing
NoOp == Signals(state') = Signals(state) /\ EmitsNothing(state')

\* C24: nextPage() adds exactly 1 to the page when currentPage < totalPages =
\* ceil(total / pageSize) and changes nothing otherwise; prevPage() takes
\* exactly 1 from it when currentPage > 1 and changes nothing otherwise; both
\* keep a page within 1..max(1, totalPages) within it.
C24_PageNavigation ==
    [][/\ NextPage =>
              IF currentPage(state) * state.pagination.pageSize
                     < state.pagination.total
              THEN currentPage(state') = currentPage(state) + 1
              ELSE NoOp
       /\ PrevPage =>
              IF currentPage(state) > 1
              THEN currentPage(state') = currentPage(state) - 1
              ELSE NoOp
       /\ (PageInRange(state) /\ (NextPage \/ PrevPage)) => PageInRange(state')
      ]_vars

\* nextPage() has just led to the third and last page
C24_Witness ==
    /\ Emits(state, "page_changed")
    /\ currentPage(state) = 3
    /\ totalPages(state) = 3

-----------------------------------------------------------------------------
(* The views isInitial, hasQuery and isEmpty along an automatic search, checked
   under SpecAuto *)

\* setQuery has just set a text for which the auto-search effect will ask the
\* adapter
QueryJustSet ==
    /\ Emits(state, "query_changed")
    /\ hasQuery(state)
    /\ adapter # None
    /\ config.autoSearch
    /\ ~TooShort(state.query, config)
    /\ Eligible(searchQuery(state), config)

\* the pipeline holds a search for the current text whose results have not
\* arrived
AwaitingResults ==
    /\ hasQuery(state)
    /\ \E i \in 1..Len(pending) :
           pending[i].live /\ pending[i].query = searchQuery(state)

\* an empty response has just been written and loading cleared
EmptyResultsArrived ==
    /\ Emits(state, "search_completed")
    /\ hasQuery(state)
    /\ state.results = <<>>
    /\ state.total = 0
    /\ ~state.loading

\* C23: a freshly constructed container is initial; right after setQuery with
\* a text that will be searched for, hasQuery holds and the container is
\* neither initial nor empty; it is not empty while the results of the search
\* for the current text are awaited; and it is empty once an empty response has
\* been written and loading cleared.
C23_EmptyInitialViews ==
    /\ state = FreshState => isInitial(state)
    /\ QueryJustSet => (hasQuery(state) /\ ~isInitial(state) /\ ~isEmpty(state))
    /\ AwaitingResults => ~isEmpty(state)
    /\ EmptyResultsArrived => isEmpty(state)


-----------------------------------------------------------------------------
(* The filter derived from a facet's selection, checked under SpecFacetFilter *)

\* the last FacetChangeEvent is of a facet of one of the kinds
Changed(kinds) == changeEvents # None /\ changeEvents[1].config.type \in kinds

\* the facet's configured operator, OR by default
ConfiguredOperator(cfg) == IF cfg.operator # None THEN cfg.operator[1] ELSE "OR"

\* filter is {field, type: 'term', value: k}
IsTerm(filter, field, k) ==
    /\ filter # None
    /\ DOMAIN filter[1] = {"field", "type", "value"}
    /\ filter[1].field = field
    /\ filter[1].type = "term"
    /\ filter[1].value = k

\* filter is {field, type: 'terms', value: keys, operator}
IsTerms(filter, field, keys, operator) ==
    /\ filter # None
    /\ DOMAIN filter[1] = {"field", "type", "value", "operator"}
    /\ filter[1].field = field
    /\ filter[1].type = "terms"
    /\ filter[1].value = keys
    /\ filter[1].operator = operator

\* filter is {field, type: 'range', value: {gte: a, lte: b}}
IsRange(filter, field, a, b) ==
    /\ filter # None
    /\ DOMAIN filter[1] = {"field", "type", "value"}
    /\ filter[1].field = field
    /\ filter[1].type = "range"
    /\ filter[1].value = [gte |-> a, lte |-> b]

\* C25: for a facet of kind text or checkbox, one selected key k derives the
\* term filter of k, two or more selected keys derive the terms filter of all
\* selected keys with the facet's configured operator (OR by default), and an
\* empty selection derives null
C25_TextFacetFilter ==
    Changed({"text", "checkbox"}) =>
        LET e == changeEvents[1]
            keys == e.selectedValues
        IN  /\ Len(keys) = 0 => e.filter = None
            /\ Len(keys) = 1 => IsTerm(e.filter, e.config.field, keys[1])
            /\ Len(keys) >= 2 =>
                   IsTerms(e.filter, e.config.field, keys,
                           ConfiguredOperator(e.config))

\* two keys of a checkbox facet with operator AND were selected, and the
\* derived filter reached the container
C25_Witness ==
    /\ Changed({"checkbox"})
    /\ changeEvents[1].config.operator = Some("AND")
    /\ changeEvents[1].selectedValues = <<10, 2>>
    /\ changeEvents[1].filter # None
    /\ changeEvents[1].filter[1].type = "terms"
    /\ Len(state.filters) = 1
    /\ state.filters[1].type = "terms"

\* C26: for a facet of kind radio or toggle with multiple selected keys, the
\* derived filter is the terms filter of all selected keys with the facet's
\* configured operator (OR by default)
C26_RadioTermsFilter ==
    Changed({"radio", "toggle"}) /\ Len(changeEvents[1].selectedValues) >= 2 =>
        IsTerms(changeEvents[1].filter, changeEvents[1].config.field,
                changeEvents[1].selectedValues,
                ConfiguredOperator(changeEvents[1].config))

\* C27: for a facet of kind number-range, range or slider, the selection pair
\* (a, b) derives the range filter {gte: a, lte: b}, and the lone selection (a)
\* derives {gte: a, lte: a}
C27_RangeFacetFilter ==
    Changed({"number-range", "range", "slider"}) =>
        LET e == changeEvents[1]
            keys == e.selectedValues
        IN  /\ Len(keys) = 2 =>
                   IsRange(e.filter, e.config.field, keys[1], keys[2])
            /\ Len(keys) = 1 =>
                   IsRange(e.filter, e.config.field, keys[1], keys[1])

\* the pair (2, 10) of a slider facet was selected, after a lone selection
C27_Witness ==
    /\ Changed({"slider"})
    /\ changeEvents[1].previousValues = <<10>>
    /\ changeEvents[1].selectedValues = <<2, 10>>
    /\ changeEvents[1].filter # None
    /\ changeEvents[1].filter[1].type = "range"
    /\ Len(state.filters) = 1
    /\ state.filters[1].type = "range"


-----------------------------------------------------------------------------
(* Selection of facet values, checked under SpecFacet *)

\* the keys of a selection, as a set
KeysOf(keys) == {keys[j] : j \in 1..Len(keys)}

\* facetId is registered
Registered(facetId) == getFacet(facets, facetId) # None

\* a step of SearchProvider.updateFacetSelection(facetId, keys)
UpdateFacetSelectionStep(facetId, keys) ==
    /\ state'.calls # <<>>
    /\ state'.calls[1] = [call |-> "updateFacetSelection", facetId |-> facetId,
                          values |-> keys]
    /\ UpdateFacetSelection(facetId, keys)

\* C28: updateSelection(facetId, keys) on a registered facet replaces the
\* facet's selection by keys, sets the selected flag of each of its values to
\* (key in keys), leaves every other facet unchanged, and emits a
\* FacetChangeEvent with the selection before the call as previousValues, keys
\* as selectedValues and the filter derived from keys (null when keys is empty)
C28_UpdateSelection ==
    [][\A id \in FacetIds, keys \in Selections :
          Registered(id) /\ UpdateFacetSelectionStep(id, keys) =>
              LET before == getFacet(facets, id)[1]
                  after == getFacet(facets', id)
              IN  /\ after # None
                  /\ after[1].selectedValues = keys
                  /\ Len(after[1].values) = Len(before.values)
                  /\ \A i \in 1..Len(before.values) :
                         after[1].values[i] =
                             [before.values[i] EXCEPT !.selected =
                                 (before.values[i].key \in KeysOf(keys))]
                  /\ \A other \in FacetIds \ {id} :
                         getFacet(facets', other) = getFacet(facets, other)
                  /\ changeEvents' # None
                  /\ changeEvents'[1].facetId = id
                  /\ changeEvents'[1].previousValues = before.selectedValues
                  /\ changeEvents'[1].selectedValues = keys
                  /\ (keys = <<>>) = (changeEvents'[1].filter = None)
                  /\ changeEvents'[1].filter =
                         facetSelectionToFilter(
                             [config |-> before.config, selectedValues |-> keys])
    ]_vars

\* facet f has the keys 10 and 2 selected after the key 2 alone, its value 2
\* and its value 10 are flagged, and facet g keeps its own selection
C28_Witness ==
    /\ Registered("f") /\ Registered("g")
    /\ changeEvents # None
    /\ changeEvents[1].facetId = "f"
    /\ changeEvents[1].previousValues = <<2>>
    /\ changeEvents[1].selectedValues = <<10, 2>>
    /\ getFacet(facets, "f")[1].selectedValues = <<10, 2>>
    /\ \A i \in 1..2 : getFacet(facets, "f")[1].values[i].selected
    /\ getFacet(facets, "g")[1].selectedValues = <<10>>


-----------------------------------------------------------------------------
(* Facet methods called with an unregistered id, checked under
   SpecFacetUnknown *)

\* the step leaves the facet map, the last change event and, in the State
\* Container, the filter map, the page and the event log as they are
NothingMutated ==
    /\ facets' = facets
    /\ changeEvents' = changeEvents
    /\ state'.filters = state.filters
    /\ state'.pagination.page = state.pagination.page
    /\ state'.events = state.events
    /\ EmitsNothing(state')

\* C29: updateSelection, clearFacet, toggleCollapsed and
\* updateValuesFromAggregation called through SearchProvider with an
\* unregistered facet id mutate no state: the facet map, the last change
\* event, and the filter map, the page and the event log of the State
\* Container are unchanged
C29_UnknownFacetNoOp ==
    [][\A id \in FacetIds :
          /\ ~Registered(id)
          /\ \/ \E keys \in Selections : UpdateFacetSelection(id, keys)
             \/ ClearFacet(id)
             \/ ToggleFacetCollapsed(id)
             \/ \E a \in Aggregations : UpdateFacetValues(id, a)
          => NothingMutated
    ]_vars


-----------------------------------------------------------------------------
(* Facet values rebuilt from an aggregation, checked under SpecFacetValues *)

\* the buckets of an aggregation (none when it has no bucket list)
BucketsOf(aggregation) ==
    IF aggregation.buckets = None THEN <<>> ELSE aggregation.buckets[1]

\* the orders in which n buckets can be listed
Orders(n) ==
    {p \in [1..n -> 1..n] : \A i, j \in 1..n : i # j => p[i] # p[j]}

\* the buckets listed in order p follow the sort order of the facet: count
\* descending, key lexical, or the order of the bucket list
Sorted(buckets, p, sort) ==
    \A i, j \in 1..Len(buckets) :
        i < j =>
            /\ sort = Some("count") =>
                   buckets[p[i]].doc_count >= buckets[p[j]].doc_count
            /\ sort = Some("key") =>
                   ~LocaleBefore(toString(buckets[p[j]].key),
                                 toString(buckets[p[i]].key))
            /\ sort = Some("custom") => p[i] < p[j]

\* the length of a list of n values truncated to maxValues
Truncated(n, maxValues) ==
    IF maxValues # None /\ maxValues[1] < n THEN maxValues[1] ELSE n

\* C30: updateValuesFromAggregation(facetId, aggregation) on a registered
\* facet rebuilds the value list with one value per bucket, selected when its
\* key is in the facet's current selection, ordered by count descending for
\* sort 'count', by key lexically for sort 'key' and in bucket order for sort
\* 'custom', then truncated to the first maxValues entries; the selection of
\* the facet and every other facet are unchanged
C30_ValuesFromAggregation ==
    [][\A id \in FacetIds, a \in Aggregations :
          Registered(id) /\ UpdateFacetValues(id, a) =>
              LET before == getFacet(facets, id)[1]
                  after == getFacet(facets', id)
                  buckets == BucketsOf(a)
              IN  /\ after # None
                  /\ after[1].selectedValues = before.selectedValues
                  /\ after[1].config = before.config
                  /\ \A other \in FacetIds \ {id} :
                         getFacet(facets', other) = getFacet(facets, other)
                  /\ \E p \in Orders(Len(buckets)) :
                         /\ Sorted(buckets, p, before.config.sort)
                         /\ Len(after[1].values) =
                                Truncated(Len(buckets), before.config.maxValues)
                         /\ \A i \in 1..Len(after[1].values) :
                                /\ after[1].values[i].key = buckets[p[i]].key
                                /\ after[1].values[i].count =
                                       buckets[p[i]].doc_count
                                /\ after[1].values[i].selected =
                                       (buckets[p[i]].key
                                            \in KeysOf(before.selectedValues))
    ]_vars

\* facet g, sorted by key with maxValues 2 and the key 2 selected, lists the
\* values 10 and 2 of the three buckets 2, 10 and 3, next to facet f
C30_Witness ==
    /\ Registered("f") /\ Registered("g")
    /\ getFacet(facets, "g")[1].config.sort = Some("key")
    /\ getFacet(facets, "g")[1].config.maxValues = Some(2)
    /\ getFacet(facets, "g")[1].selectedValues = <<2>>
    /\ Len(getFacet(facets, "g")[1].values) = 2
    /\ getFacet(facets, "g")[1].values[1].key = 10
    /\ ~getFacet(facets, "g")[1].values[1].selected
    /\ getFacet(facets, "g")[1].values[2].key = 2
    /\ getFacet(facets, "g")[1].values[2].selected


-----------------------------------------------------------------------------
(* The applied filters of the Facet Manager, checked under SpecFacet *)

\* the registered facets whose selection is not empty, in the order of the map
WithSelection(fs) == SelectSeq(fs, LAMBDA f : f.selectedValues # <<>>)

\* filters is the list of the derived filters of the facets of fs that have a
\* selection, one per facet
DerivedFiltersOf(filters, fs) ==
    /\ Len(filters) = Len(WithSelection(fs))
    /\ \A i \in 1..Len(filters) :
           Some(filters[i]) = facetSelectionToFilter(WithSelection(fs)[i])

\* C31: appliedFilters is the list of the derived filters of the registered
\* facets whose selection is not empty, one per such facet; after
\* clearAllFacets() it is empty, and after removeFacet(id) it holds no filter
\* derived from that facet
C31_AppliedFilters ==
    [][/\ DerivedFiltersOf(appliedFilters(facets'), facets')
       /\ ClearAllFacets => appliedFilters(facets') = <<>>
       /\ \A id \in FacetIds :
              Registered(id) /\ RemoveFacet(id) =>
                  \A i \in 1..Len(appliedFilters(facets')) :
                      appliedFilters(facets')[i].field
                          # getFacet(facets, id)[1].config.field
    ]_vars

\* both facets have a selection and appliedFilters lists the filter of f and
\* then the filter of g
C31_Witness ==
    /\ Len(facets) = 2
    /\ facets[1].selectedValues = <<2, 10>>
    /\ facets[2].selectedValues = <<10>>
    /\ Len(appliedFilters(facets)) = 2
    /\ appliedFilters(facets)[1].type = "terms"
    /\ appliedFilters(facets)[2].type = "range"


-----------------------------------------------------------------------------
(* A facet registered again, checked under SpecFacetReplace *)

\* the keys of the static options of a config
OptionKeys(cfg) ==
    IF cfg.options = None THEN {}
    ELSE {cfg.options[1][i].value : i \in 1..Len(cfg.options[1])}

\* C32: addFacet(config) for an id that is already registered replaces the
\* facet's config and its value list, which is rebuilt from the new config,
\* and carries over the selection for the keys that still apply
C32_AddFacetReplaces ==
    [][\A c \in {TextConfig, NarrowConfig} :
          Registered(c.id) /\ AddFacet(c) =>
              LET before == getFacet(facets, c.id)[1]
                  after == getFacet(facets', c.id)
              IN  /\ after # None
                  /\ after[1].config = c
                  /\ Len(after[1].values) = Len(getInitialValues(c))
                  /\ \A i \in 1..Len(after[1].values) :
                         after[1].values[i].key = getInitialValues(c)[i].key
                  /\ after[1].selectedValues =
                         SelectSeq(before.selectedValues,
                                   LAMBDA k : k \in OptionKeys(c))
    ]_vars


\* the keys a facet can name: those of the static options of its config and
\* those of its value list
NameableKeys(facetState) ==
    OptionKeys(facetState.config)
        \cup {facetState.values[i].key : i \in 1..Len(facetState.values)}

\* C33: the selected values of every facet are among the keys its config can
\* name (keys of its static options or of values supplied to it): no
\* operation selects a key the facet never offered
C33_SelectionNameable ==
    \A i \in 1..Len(facets) :
        KeysOf(facets[i].selectedValues) \subseteq NameableKeys(facets[i])


-----------------------------------------------------------------------------
(* Telemetry clients that throw: the search pipeline and the container with
   clients injected, SpecTelemetry *)

\* the client lists injected: a client that throws before and after one that
\* returns, and a client without trackTiming and trackError
ClientLists == {<<"throws", "returns">>, <<"eventsOnly", "returns", "throws">>}

InitTelemetry ==
    /\ \E injected \in ClientLists :
           state = [setEventHistoryLimit(InitialState, 0) EXCEPT
                       !.clients = injected]
    /\ adapter = None
    /\ config = DefaultConfig
    /\ searchSubscription = TRUE
    /\ pending = <<>>
    /\ currentSearchMeta = None
    /\ lastAutoSearchSignature = None
    /\ effectDirty = TRUE
    /\ quiet = QuietCap
    /\ seen = None
    /\ configTouched = FALSE
    /\ suggestSubscription = FALSE
    /\ suggestPending = <<>>
    /\ currentSuggestMeta = None
    /\ configDirty = TRUE
    /\ emitted = <<>>
    /\ limitStable = TRUE
    /\ requestedLimit = None
    /\ facets = <<>>
    /\ changeEvents = None
    /\ destroyed = FALSE

NextTelemetry ==
    \/ SetAdapter(SearchOnlyAdapter)
    \/ \E q \in ManualQueries : Search(Some(q))
    \/ Tick
    \/ \E i \in 1..Len(pending) : AdapterCalled(i)
    \/ \E i \in 1..Len(pending), r \in Responses : SearchResponds(i, r)
    \/ \E i \in 1..Len(pending), e \in Errors : SearchErrors(i, e)
    \/ \E f \in Filters : AddFilter(f)
    \/ \E x \in Fields : RemoveFilter(x)

SpecTelemetry == InitTelemetry /\ [][NextTelemetry]_vars

\* the method of a client that a call of the telemetry service hands its
\* notification to
TrackMethod(call) ==
    IF call = "recordEvent" THEN "trackEvent"
    ELSE IF call = "recordTiming" THEN "trackTiming"
    ELSE "trackError"

\* client i defines the method
Defines(s, i, method) == method = "trackEvent" \/ s.clients[i] # "eventsOnly"

\* call k of the last handler hands a notification to the telemetry service
Records(s, k) ==
    s.calls[k].call \in {"recordEvent", "recordTiming", "recordError"}

\* the calls of the last handler from call k up to the next notification
Delivery(s, k) ==
    {j \in k + 1..Len(s.calls) :
        \A m \in k + 1..j : ~Records(s, m)}

\* a container without the clients and without the calls of the last handler
Core(s) == [s EXCEPT !.clients = <<>>, !.calls = <<>>]

\* the container with no telemetry client installed
NoClients(s) == [s EXCEPT !.clients = <<>>]

\* C34: an exception of a telemetry client in trackEvent, trackTiming or
\* trackError is swallowed: no exception leaves the telemetry service, every
\* other client that defines the method receives the notification, and the
\* step that produced the notification ends in the state it ends in with no
\* client installed
C34_TelemetryIsolation ==
    [][/\ \A k \in 1..Len(state'.calls) :
              /\ state'.calls[k].call # "throw"
              /\ Records(state', k) =>
                     \A i \in 1..Len(state'.clients) :
                         Defines(state', i, TrackMethod(state'.calls[k].call)) =>
                             \E j \in Delivery(state', k) :
                                 /\ state'.calls[j].call =
                                        TrackMethod(state'.calls[k].call)
                                 /\ state'.calls[j].client = i
       /\ \A i \in 1..Len(pending), r \in Responses :
              pending[i].live /\ SearchResponds(i, r) =>
                  Core(state') =
                      Core(onResponse(NoClients(Enter(state)),
                                      pending[i].query, r))
       /\ \A i \in 1..Len(pending), e \in Errors :
              pending[i].live /\ SearchErrors(i, e) =>
                  Core(state') =
                      Core(onError(NoClients(Enter(state)), pending[i].query, e))
       /\ \A f \in Filters :
              AddFilter(f) =>
                  Core(state') = Core(addFilter(NoClients(Enter(state)), f))
    ]_vars

\* a response was written although the first of two clients threw from
\* trackEvent and from trackTiming: the second client received both
C34_Witness ==
    /\ state.clients = <<"throws", "returns">>
    /\ state.results # <<>>
    /\ ~state.loading
    /\ \E k \in 1..Len(state.calls) :
           /\ state.calls[k].call = "logger.error"
           /\ state.calls[k].message = <<"[SearchTelemetry]", "trackTiming", "failed">>
    /\ \E k \in 1..Len(state.calls) :
           state.calls[k].call = "trackTiming" /\ state.calls[k].client = 2
    /\ \E k \in 1..Len(state.calls) :
           state.calls[k].call = "trackEvent" /\ state.calls[k].client = 2


-----------------------------------------------------------------------------
(* Teardown of the coordinator: setupCleanup, SpecTeardown *)

\* the adapter defines destroy()
DefinesDestroy(adp) ==
    adp # None /\ "destroy" \in DOMAIN adp[1] /\ adp[1].destroy

\* the onDestroy callback without the unsubscription of suggestSubscription
onDestroySearchOnly(w, ws, adp) ==
    LET w1 == unsubscribeInner(w)
        s3 == IF DefinesDestroy(adp)
              THEN [w1.state EXCEPT !.calls = Append(@, [call |-> "adapter.destroy"])]
              ELSE w1.state
    IN  [ search |-> World(s3, w1.pending, w1.meta, FALSE),
          suggest |-> World(s3, ws.pending, ws.meta, ws.sub) ]

\* destroyRef.onDestroy(() => {...}) on the fields of the search pipeline (w)
\* and of the suggestion pipeline (ws): both subscriptions are unsubscribed,
\* which runs the finalize of a live adapter call, and the adapter is destroyed
onDestroy(w, ws, adp) ==
    LET w1 == unsubscribeInner(w)
        w2 == unsubscribeInnerSuggest([ws EXCEPT !.state = w1.state])
        s3 == IF DefinesDestroy(adp)
              THEN [w2.state EXCEPT !.calls = Append(@, [call |-> "adapter.destroy"])]
              ELSE w2.state
    IN  [ search |-> World(s3, w1.pending, w1.meta, FALSE),
          suggest |-> World(s3, w2.pending, w2.meta, FALSE) ]

\* adapters that implement suggest, with and without destroy()
TeardownAdapters == {[suggest |-> TRUE, destroy |-> TRUE], [suggest |-> TRUE]}

\* the injector of the coordinator is destroyed
Destroy ==
    /\ ~destroyed
    /\ destroyed' = TRUE
    /\ LET r == onDestroy([Cur EXCEPT !.pending = MarkAll(@, "cancelled")],
                          [CurSuggest EXCEPT !.pending = MarkAll(@, "cancelled")],
                          adapter)
       IN  /\ Apply(r.search)
           /\ suggestPending' = r.suggest.pending
           /\ currentSuggestMeta' = r.suggest.meta
           /\ suggestSubscription' = r.suggest.sub
    /\ UNCHANGED <<adapter, config, lastAutoSearchSignature, effectDirty, quiet,
                   seen, configTouched, logVars, facetVars>>

NextTeardown ==
    \/ \E a \in TeardownAdapters : SetAdapter(a)
    \/ \E q \in ManualQueries : Search(Some(q))
    \/ \E t \in Texts : Suggest(t)
    \/ Tick
    \/ \E i \in 1..Len(pending) : AdapterCalled(i)
    \/ \E i \in 1..Len(pending), r \in Responses : SearchResponds(i, r)
    \/ \E i \in 1..Len(pending), e \in Errors : SearchErrors(i, e)
    \/ \E i \in 1..Len(suggestPending) : SuggestCalled(i)
    \/ \E i \in 1..Len(suggestPending), l \in SuggestionLists :
          SuggestResponds(i, l)
    \/ \E i \in 1..Len(suggestPending), e \in Errors : SuggestErrors(i, e)
    \/ Destroy

SpecTeardown == Init /\ [][NextTeardown]_vars

\* the number of calls of adapter.destroy() made by the last handler
DestroyCalls(s) ==
    Len(SelectSeq(s.calls, LAMBDA c : c.call = "adapter.destroy"))

\* C35: when the coordinator is torn down, the pending and in-flight search
\* and suggestion requests are cancelled, so that afterwards no request is
\* live, the adapter is not called and a response that arrives is not written
\* to the State Container, and destroy() of the adapter, when the adapter
\* defines it, is called exactly once
C35_Teardown ==
    [][/\ ~destroyed /\ destroyed' =>
              /\ \A i \in 1..Len(pending') : ~pending'[i].live
              /\ \A i \in 1..Len(suggestPending') : ~suggestPending'[i].live
              /\ ~searchSubscription' /\ ~suggestSubscription'
              /\ DestroyCalls(state') = IF DefinesDestroy(adapter) THEN 1 ELSE 0
       /\ destroyed = destroyed' => DestroyCalls(state') = 0
       /\ destroyed =>
              /\ destroyed'
              /\ \A i \in 1..Len(pending') : ~pending'[i].live
              /\ \A i \in 1..Len(suggestPending') : ~suggestPending'[i].live
              /\ ~Calls(state', "adapter.search")
              /\ ~Calls(state', "adapter.suggest")
              /\ Len(pending') < Len(pending)
                     \/ Len(suggestPending') < Len(suggestPending) =>
                         Signals(state') = Signals(state)
    ]_vars

\* after the teardown, which destroyed the adapter, a response arrives for a
\* search that was in flight, and another for a suggestion request
C35_Witness ==
    /\ destroyed
    /\ DefinesDestroy(adapter)
    /\ state.results = <<>> /\ state.suggestions = <<>>
    /\ ~state.loading /\ ~state.loadingSuggestions
    /\ \E i \in 1..Len(pending) :
           pending[i].phase = "inflight" /\ pending[i].cancelled
    /\ \E i \in 1..Len(suggestPending) :
           suggestPending[i].phase = "inflight" /\ suggestPending[i].cancelled


-----------------------------------------------------------------------------
(* search() after cancel(), with an adapter that never throws: SpecCancel *)

NextCancel ==
    \/ SetAdapter(SearchOnlyAdapter)
    \/ \E q \in ManualQueries : Search(Some(q))
    \/ Cancel
    \/ Tick
    \/ \E i \in 1..Len(pending) : AdapterCalled(i)
    \/ \E i \in 1..Len(pending), r \in Responses : SearchResponds(i, r)
    \/ \E i \in 1..Len(pending), e \in Errors : SearchErrors(i, e)

SpecCancel == Init /\ [][NextCancel]_vars

\* C36: cancel() leaves the pipeline usable: every search() that passes the
\* adapter and length checks, also one issued after a cancel(), emits
\* search_started, sets loading and waits on its debounce timer for the
\* adapter, and the response of a search that is still current is written
C36_SearchAfterCancel ==
    [][/\ \A q \in ManualQueries :
              Accepted(state, Some(q), adapter, config) /\ SearchStep(Some(q)) =>
                  /\ Emits(state', "search_started")
                  /\ state'.loading
                  /\ pending' # <<>>
                  /\ pending'[Len(pending')] = Instance(q, config.debounceTime)
       /\ \A i \in 1..Len(pending), r \in Responses :
              pending[i].live /\ SearchResponds(i, r) =>
                  state'.results = r.results /\ ~state'.loading
    ]_vars


-----------------------------------------------------------------------------
(* Responses and the query on display: SpecAuto *)

\* adapter call i of the pipeline answers and the subscriber writes the answer
WritesResponse(i) ==
    /\ i \in 1..Len(pending)
    /\ pending[i].phase = "inflight"
    /\ pending[i].live
    /\ \E r \in Responses : SearchResponds(i, r)

\* C37: with autoSearch on and the effect run for the present query, a
\* response that the coordinator writes was fetched for a query with the
\* content of the container's present searchQuery; so the results of a search
\* in flight are not written once the text was edited to empty or to fewer
\* than minQueryLength characters
C37_NoOutdatedResponse ==
    [][\A i \in 1..Len(pending) :
           config.autoSearch /\ ~effectDirty /\ WritesResponse(i) =>
               serializeQuery(pending[i].query) = serializeQuery(searchQuery(state))
    ]_vars


-----------------------------------------------------------------------------
(* suggest() with too short a text and the requests before it: SpecSuggest *)

\* the subscriber of setupAutoSuggest would write the answer of a request of
\* this pipeline: its timer or its adapter call is still subscribed
AnswerWouldBeWritten(p) == \E i \in 1..Len(p) : p[i].live

\* C38: when suggest(text) with too short a text has cleared the suggestions,
\* no earlier suggest() is left pending or in flight whose response would be
\* written: the suggestions stay empty until a later suggest() completes
C38_ShortSuggestDropsEarlier ==
    [][\A t \in Texts :
           /\ SuggestStep(t)
           /\ CanSuggest(adapter)
           /\ Len(Trim(t)) < config.minQueryLength
           => /\ state'.suggestions = <<>>
              /\ ~AnswerWouldBeWritten(suggestPending')
    ]_vars


-----------------------------------------------------------------------------
(* The filters of the container and the facets: SpecFacet *)

\* the filters of a list, order left aside
FilterSet(filters) == {filters[i] : i \in 1..Len(filters)}

\* C39: with facets of pairwise distinct fields driven through SearchProvider
\* only, after every call the filters of the State Container are exactly the
\* filters of appliedFilters
C39_FiltersInSync ==
    FilterSet(state.filters) = FilterSet(appliedFilters(facets))


-----------------------------------------------------------------------------
(* The search events of the event log, with an unbounded history: SpecEvents *)

\* the engine with the history limit set to null: every event is kept
InitEvents ==
    /\ state = setEventHistoryLimitNull(InitialState)
    /\ adapter = None
    /\ config = DefaultConfig
    /\ searchSubscription = TRUE
    /\ pending = <<>>
    /\ currentSearchMeta = None
    /\ lastAutoSearchSignature = None
    /\ effectDirty = TRUE
    /\ quiet = QuietCap
    /\ seen = None
    /\ configTouched = FALSE
    /\ suggestSubscription = FALSE
    /\ suggestPending = <<>>
    /\ currentSuggestMeta = None
    /\ configDirty = FALSE
    /\ emitted = <<>>
    /\ limitStable = TRUE
    /\ requestedLimit = None
    /\ facets = <<>>
    /\ changeEvents = None
    /\ destroyed = FALSE

\* bound of the model: a handler emits two events at most
Room == Len(state.events) + 2 <= MaxLogged

NextEvents ==
    \/ SetAdapter(SearchOnlyAdapter)
    \/ \E q \in ManualQueries : Room /\ Search(Some(q))
    \/ Cancel
    \/ Tick
    \/ \E i \in 1..Len(pending) : AdapterCalled(i)
    \/ \E i \in 1..Len(pending), e \in Errors : AdapterThrows(i, e)
    \/ \E i \in 1..Len(pending), r \in Responses : Room /\ SearchResponds(i, r)
    \/ \E i \in 1..Len(pending), e \in Errors : Room /\ SearchErrors(i, e)

SpecEvents == InitEvents /\ [][NextEvents]_vars

SearchEventTypes == {"search_started", "search_completed", "search_failed"}

\* the search events of a log, in the order of the log
SearchEvents(events) == SelectSeq(events, LAMBDA e : e.type \in SearchEventTypes)

\* every completion or failure of the log comes right after the search_started
\* of its query, no other search event in between: each one has its
\* search_started before it, and no search_started has two of them
Paired(log) ==
    \A k \in 1..Len(log) :
        log[k].type \in {"search_completed", "search_failed"} =>
            /\ k > 1
            /\ log[k - 1].type = "search_started"
            /\ log[k - 1].query = log[k].query

\* C40: in the event log with an unbounded history, every search_completed and
\* search_failed is preceded by a search_started for the same query, every
\* search_started is followed by at most one completion or failure, and the
\* answer of a superseded or cancelled search adds no event: its search_started
\* stays without completion and failure
C40_SearchEventOrder ==
    [][/\ Paired(SearchEvents(state'.events))
       /\ \A i \in 1..Len(pending) :
              /\ pending[i].phase = "inflight"
              /\ ~pending[i].live
              /\ Arrives(i)
              => state'.events = state.events
    ]_vars

\* a search was superseded by a search for another query, which completed; the
\* log holds the two search_started and one search_completed
C40_Witness ==
    LET log == SearchEvents(state.events)
    IN  /\ Len(log) >= 3
        /\ log[1].type = "search_started"
        /\ log[2].type = "search_started"
        /\ log[2].query # log[1].query
        /\ log[3].type = "search_completed"
        /\ log[3].query = log[2].query
        /\ \E i \in 1..Len(pending) : ~pending[i].live /\ pending[i].superseded

=============================================================================
